---- MODULE Spec2Model ----
(***************************************************************************)
(* A model of the AriaSQL system catalog (package catalog): the table      *)
(* store (insert, update, delete, indexes, sequences), the catalog         *)
(* (CreateTable, Open, Close) and the privilege check.                     *)
(*                                                                         *)
(* Go maps are iterated in an unspecified order: every loop over a map is  *)
(* modelled by a choice of the order.  A Go panic ends the process: it     *)
(* sets crashed, after which nothing happens.                              *)
(***************************************************************************)
EXTENDS Integers, Sequences, FiniteSets, TLC

(***************************************************************************)
(* Bounds of the model.                                                    *)
(***************************************************************************)
MaxRows == 2
MaxVal == 2
MaxSeq == 3
MaxSets == 2
MaxCalls == 3
MaxActs == 2
MaxThreads == 2
MaxBatch == 2

(***************************************************************************)
(* Strings are sequences of one-character strings, so that formatting and  *)
(* parsing are computed.                                                   *)
(***************************************************************************)
Digit == <<"0", "1", "2", "3", "4", "5", "6", "7", "8", "9">>

RECURSIVE Itoa(_)
Itoa(n) ==
    IF n < 0 THEN <<"-">> \o Itoa(0 - n)
    ELSE IF n < 10 THEN <<Digit[n + 1]>>
    ELSE Itoa(n \div 10) \o <<Digit[(n % 10) + 1]>>

IsDigit(c) == \E i \in 1..10 : Digit[i] = c

DigitVal(c) == (CHOOSE i \in 1..10 : Digit[i] = c) - 1

RECURSIVE AtoiDigits(_, _)
AtoiDigits(s, acc) ==
    IF s = <<>> THEN acc ELSE AtoiDigits(Tail(s), acc * 10 + DigitVal(Head(s)))

Atoi(s) ==
    LET neg == s # <<>> /\ Head(s) = "-"
        body == IF s # <<>> /\ Head(s) \in {"-", "+"} THEN Tail(s) ELSE s
    IN  IF body = <<>> \/ \E i \in 1..Len(body) : ~IsDigit(body[i])
        THEN [err |-> TRUE, n |-> 0]
        ELSE [err |-> FALSE,
              n |-> IF neg THEN 0 - AtoiDigits(body, 0) ELSE AtoiDigits(body, 0)]

Perms(S) == {p \in [1..Cardinality(S) -> S] : \A x \in S : \E i \in DOMAIN p : p[i] = x}

Contains(seq, x) == \E i \in 1..Len(seq) : seq[i] = x

(***************************************************************************)
(* Go values held in a row (interface{}): a type tag and the value.        *)
(***************************************************************************)
GoNil == [t |-> "nil", v |-> "nil"]
GoInt(n) == [t |-> "int", v |-> n]
GoString(s) == [t |-> "string", v |-> s]
GoBytes(b) == [t |-> "[]byte", v |-> b]

NilText == <<"<", "n", "i", "l", ">">>

\* fmt.Sprintf("%v", val): decimal for an int, the text of a string, <nil>
\* for nil, and the bracketed list of decimal bytes for a byte slice.
SprintfV(val) ==
    CASE val.t = "int" -> Itoa(val.v)
      [] val.t = "string" -> val.v
      [] val.t = "nil" -> NilText
      [] OTHER -> <<"%v[]byte", val.v>>

(***************************************************************************)
(* The codec.  A byte string is either a text or a tagged value that says  *)
(* which transformation made it.                                           *)
(***************************************************************************)
EncodeRow(n) == [err |-> FALSE, b |-> <<"gob", n>>]

decodeRow(b) ==
    IF Len(b) = 2 /\ b[1] = "gob"
    THEN [err |-> FALSE, row |-> b[2]]
    ELSE [err |-> TRUE, row |-> <<>>]

Compress(row) == [err |-> FALSE, b |-> <<"zstd", row>>]

Decompress(row) ==
    IF Len(row) = 2 /\ row[1] = "zstd"
    THEN [err |-> FALSE, b |-> row[2]]
    ELSE [err |-> TRUE, b |-> <<>>]

\* ChaCha20 XORs the input with the key stream of (key, nonce): applying it
\* twice with the same key gives the input back.
XORKeyStream(key, nonce, row) ==
    IF Len(row) = 4 /\ row[1] = "chacha20" /\ row[2] = key /\ row[3] = nonce
    THEN row[4]
    ELSE <<"chacha20", key, nonce, row>>

Encrypt(key, nonce, row) == [err |-> FALSE, b |-> XORKeyStream(key, nonce, row)]

Decrypt(key, nonce, cipherRow) == [err |-> FALSE, b |-> XORKeyStream(key, nonce, cipherRow)]

(***************************************************************************)
(* The pager and the B-tree are collaborators of the package: they are     *)
(* modelled from their contracts.  A pager is its pages (row-id i is page  *)
(* i + 1 of the sequence) and the set of deleted row-ids; a B-tree is the  *)
(* set of its (key, value) pairs.                                          *)
(***************************************************************************)
PagerCount(dat) == Len(dat.pages)

PagerWrite(dat, data) ==
    [err |-> FALSE, id |-> Len(dat.pages), dat |-> [dat EXCEPT !.pages = Append(@, data)]]

PagerWriteTo(dat, id, data) ==
    IF id \in 0..(Len(dat.pages) - 1)
    THEN [err |-> FALSE, dat |-> [dat EXCEPT !.pages[id + 1] = data]]
    ELSE [err |-> TRUE, dat |-> dat]

PagerGetPage(dat, id) ==
    IF id \in 0..(Len(dat.pages) - 1)
    THEN [err |-> FALSE, b |-> dat.pages[id + 1]]
    ELSE [err |-> TRUE, b |-> <<>>]

PagerDeletePage(dat, id) ==
    IF id \in 0..(Len(dat.pages) - 1)
    THEN [err |-> FALSE, dat |-> [dat EXCEPT !.deleted = @ \cup {id}]]
    ELSE [err |-> TRUE, dat |-> dat]

PagerGetDeletedPages(dat) == dat.deleted

BTreePut(bt, key, value) == bt \cup {<<key, value>>}

BTreeGet(bt, key) == {e[2] : e \in {x \in bt : x[1] = key}}

BTreeRemove(bt, key, value) == bt \ {<<key, value>>}

EmptyPager == [pages |-> <<>>, deleted |-> {}]

(***************************************************************************)
(* Rows are maps from column names to Go values.                           *)
(***************************************************************************)
HasKey(row, col) == col \in DOMAIN row

MapGet(row, col) == IF col \in DOMAIN row THEN row[col] ELSE GoNil

MapSet(row, col, val) == [c \in DOMAIN row \cup {col} |-> IF c = col THEN val ELSE row[c]]

MapDelete(row, col) == [c \in DOMAIN row \ {col} |-> row[c]]

NoReference == [TableName |-> "", ColumnName |-> ""]

\* strings.TrimSuffix(strings.TrimPrefix(s, "'"), "'")
TrimPrefixQuote(s) == IF s # <<>> /\ Head(s) = "'" THEN Tail(s) ELSE s

TrimSuffixQuote(s) == IF s # <<>> /\ s[Len(s)] = "'" THEN SubSeq(s, 1, Len(s) - 1) ELSE s

TrimQuotes(s) == TrimSuffixQuote(TrimPrefixQuote(s))

INT_MAX == 2147483647
SMALLINT_MAX == 32767

(***************************************************************************)
(* Go's int and uint64 are 64 bits wide.  A value within 32 bits is a      *)
(* number; a value outside is its 64 bits as four 16-bit limbs, most       *)
(* significant first (two's complement for int).                           *)
(***************************************************************************)
GoWide(t, bits) == [t |-> t, v |-> bits, wide |-> TRUE]

IsWide(val) == "wide" \in DOMAIN val

\* the 64 bits of a value
Bits(val) ==
    IF IsWide(val) THEN val.v
    ELSE IF val.v >= 0 THEN <<0, 0, val.v \div 65536, val.v % 65536>>
    ELSE LET m == (val.v + INT_MAX) + 1
         IN  <<65535, 65535, 32768 + (m \div 65536), m % 65536>>

\* the int with the given 64 bits
IntOfBits(bits) ==
    IF bits[1] = 0 /\ bits[2] = 0 /\ bits[3] < 32768
    THEN GoInt(bits[3] * 65536 + bits[4])
    ELSE IF bits[1] = 65535 /\ bits[2] = 65535 /\ bits[3] >= 32768
    THEN GoInt((((bits[3] - 32768) * 65536 + bits[4]) - INT_MAX) - 1)
    ELSE GoWide("int", bits)

\* int(x) of a uint64 x: the same 64 bits
IntOfUint64(val) == IntOfBits(Bits(val))

\* x > limit for an int x
IntGreater(val, limit) ==
    LET a == Bits(val)
        b == Bits(GoInt(limit))
    IN  IF (a[1] >= 32768) # (b[1] >= 32768) THEN b[1] >= 32768
        ELSE \E i \in 1..4 : a[i] > b[i] /\ \A j \in 1..(i - 1) : a[j] = b[j]

(***************************************************************************)
(* Table.CheckIndexedColumn returns the first index of the map iteration   *)
(* that covers the column and has the wanted unique flag: any of these, or *)
(* nil when the set is empty.                                              *)
(***************************************************************************)
CheckIndexedColumn(tbl, column, unique) ==
    {n \in DOMAIN tbl.Indexes :
        Contains(tbl.Indexes[n].Columns, column) /\ tbl.Indexes[n].Unique = unique}

(***************************************************************************)
(* Table.IncrementSequence on the sequence file content seq.  The handle   *)
(* is read-write after CreateTable and read-only after Open; the results   *)
(* of Write and Truncate are not looked at.  A nil SeqLock panics.         *)
(***************************************************************************)
IncrementSequence(tbl, seq) ==
    IF ~tbl.SeqLock THEN [panic |-> TRUE, err |-> "", n |-> 0, seq |-> seq]
    ELSE IF seq = <<>>
    THEN [panic |-> FALSE, err |-> "", n |-> 1,
          seq |-> IF tbl.SequenceFile = "rw" THEN <<"1">> ELSE seq]
    ELSE IF Atoi(seq).err
    THEN [panic |-> FALSE, err |-> "atoi", n |-> 0, seq |-> seq]
    ELSE LET j == Atoi(seq).n + 1
         IN  [panic |-> FALSE, err |-> "", n |-> j,
              seq |-> IF tbl.SequenceFile = "rw" THEN Itoa(j) ELSE seq]

(***************************************************************************)
(* Table.insert, the body of the loop over the schema for one column.      *)
(* The result is the set of outcomes the iteration can have: k is "ok"     *)
(* (go on with the next column), "err" (insert returns the error) or       *)
(* "panic"; row is the row as the iteration leaves it and seq the content  *)
(* of the sequence file.  The schemas of the model use the data types      *)
(* TEXT, CHAR, CHARACTER, INT, INTEGER and SMALLINT; a row never holds a   *)
(* uint64.                                                                 *)
(***************************************************************************)
Outcome(k, err, row, seq) == [k |-> k, err |-> err, row |-> row, seq |-> seq]

\* the unique check of one column against one unique index: the errors the
\* loop over the row-ids found under the key can return
UniqueErrs(dir, idx, colName, row) ==
    LET V == BTreeGet(dir.bt[idx], SprintfV(row[colName]))
        ErrOf(rowId) ==
            LET id == Atoi(rowId)
                r == PagerGetPage(dir.dat, id.n)
                decoded == decodeRow(r.b)
            IN  IF id.err \/ r.err \/ decoded.err THEN "problem"
                ELSE IF MapGet(decoded.row, colName) = row[colName] THEN "exists"
                ELSE ""
    IN  {ErrOf(rowId) : rowId \in V} \ {""}

\* variant of the type check that keeps a sequence value the caller supplied
insertTypeCheck_KeepsSupplied(tbl, dir, row, colName) ==
    LET colDef == tbl.TableSchema[colName]
        val == row[colName]
    IN  CASE colDef.DataType = "TEXT" ->
                IF val.t # "string"
                THEN {Outcome("err", "type", row, dir.seq)}
                ELSE {Outcome("ok", "", row, dir.seq)}
          [] colDef.DataType \in {"CHARACTER", "CHAR"} ->
                IF val.t # "string"
                THEN IF colDef.NotNull
                     THEN IF val # GoNil
                          THEN {Outcome("err", "type", row, dir.seq)}
                          ELSE {Outcome("ok", "", row, dir.seq)}
                     ELSE {Outcome("continue", "", row, dir.seq)}
                ELSE IF Len(TrimQuotes(val.v)) > colDef.Length
                     THEN {Outcome("err", "toolong", row, dir.seq)}
                     ELSE {Outcome("ok", "", row, dir.seq)}
          [] colDef.DataType \in {"INT", "INTEGER", "SMALLINT"} ->
                LET inc == IncrementSequence(tbl, dir.seq)
                    seqd == colDef.Sequence
                    supplied == seqd /\ val.t = "int"
                    rowS == IF seqd /\ ~supplied THEN MapSet(row, colName, GoInt(inc.n)) ELSE row
                    row2 == IF rowS[colName].t = "uint64"
                            THEN MapSet(rowS, colName, IntOfUint64(rowS[colName]))
                            ELSE rowS
                    seq2 == IF seqd /\ ~supplied THEN inc.seq ELSE dir.seq
                IN  IF seqd /\ CheckIndexedColumn(tbl, colName, TRUE) = {}
                    THEN {Outcome("err", "seq-unique", row, dir.seq)}
                    ELSE IF seqd /\ inc.panic
                    THEN {Outcome("panic", "", row, dir.seq)}
                    ELSE IF seqd /\ inc.err # ""
                    THEN {Outcome("err", inc.err, row, dir.seq)}
                    ELSE IF row2[colName].t # "int"
                    THEN {Outcome("err", "type", row2, seq2)}
                    ELSE IF colDef.DataType \in {"INT", "INTEGER"}
                            /\ IntGreater(row2[colName], INT_MAX)
                    THEN {Outcome("err", "toolarge", row2, seq2)}
                    ELSE IF colDef.DataType = "SMALLINT"
                            /\ IntGreater(row2[colName], SMALLINT_MAX)
                    THEN {Outcome("err", "toolarge", row2, seq2)}
                    ELSE {Outcome("ok", "", row2, seq2)}
          [] OTHER -> {Outcome("err", "datatype", row, dir.seq)}

insertTypeCheck(tbl, dir, row, colName) ==
    LET colDef == tbl.TableSchema[colName]
        val == row[colName]
    IN  CASE colDef.DataType = "TEXT" ->
                IF val.t # "string"
                THEN {Outcome("err", "type", row, dir.seq)}
                ELSE {Outcome("ok", "", row, dir.seq)}
          [] colDef.DataType \in {"CHARACTER", "CHAR"} ->
                IF val.t # "string"
                THEN IF colDef.NotNull
                     THEN IF val # GoNil
                          THEN {Outcome("err", "type", row, dir.seq)}
                          ELSE {Outcome("ok", "", row, dir.seq)}
                     ELSE {Outcome("continue", "", row, dir.seq)}
                ELSE IF Len(TrimQuotes(val.v)) > colDef.Length
                     THEN {Outcome("err", "toolong", row, dir.seq)}
                     ELSE {Outcome("ok", "", row, dir.seq)}
          [] colDef.DataType \in {"INT", "INTEGER", "SMALLINT"} ->
                LET inc == IncrementSequence(tbl, dir.seq)
                    seqd == colDef.Sequence
                    rowS == IF seqd THEN MapSet(row, colName, GoInt(inc.n)) ELSE row
                    row2 == IF rowS[colName].t = "uint64"
                            THEN MapSet(rowS, colName, IntOfUint64(rowS[colName]))
                            ELSE rowS
                    seq2 == IF seqd THEN inc.seq ELSE dir.seq
                IN  IF seqd /\ CheckIndexedColumn(tbl, colName, TRUE) = {}
                    THEN {Outcome("err", "seq-unique", row, dir.seq)}
                    ELSE IF seqd /\ inc.panic
                    THEN {Outcome("panic", "", row, dir.seq)}
                    ELSE IF seqd /\ inc.err # ""
                    THEN {Outcome("err", inc.err, row, dir.seq)}
                    ELSE IF row2[colName].t # "int"
                    THEN {Outcome("err", "type", row2, seq2)}
                    ELSE IF colDef.DataType \in {"INT", "INTEGER"}
                            /\ IntGreater(row2[colName], INT_MAX)
                    THEN {Outcome("err", "toolarge", row2, seq2)}
                    ELSE IF colDef.DataType = "SMALLINT"
                            /\ IntGreater(row2[colName], SMALLINT_MAX)
                    THEN {Outcome("err", "toolarge", row2, seq2)}
                    ELSE {Outcome("ok", "", row2, seq2)}
          [] OTHER -> {Outcome("err", "datatype", row, dir.seq)}

insertUniqueCheck(tbl, dir, row, colName, seq) ==
    LET idxs == CheckIndexedColumn(tbl, colName, TRUE)
    IN  IF ~tbl.TableSchema[colName].Unique THEN {Outcome("ok", "", row, seq)}
        ELSE IF idxs = {} THEN {Outcome("err", "problem", row, seq)}
        ELSE UNION {
               IF UniqueErrs(dir, idx, colName, row) = {}
               THEN {Outcome("ok", "", row, seq)}
               ELSE {Outcome("err", e, row, seq) : e \in UniqueErrs(dir, idx, colName, row)}
               : idx \in idxs}

insertReferenceCheck(db, tbl, row, colName, seq) ==
    LET ref == tbl.TableSchema[colName].References
    IN  IF ref = NoReference THEN Outcome("ok", "", row, seq)
        ELSE IF ref.TableName \notin DOMAIN db THEN Outcome("err", "fk", row, seq)
        ELSE IF CheckIndexedColumn(db[ref.TableName], colName, TRUE) = {}
        THEN Outcome("err", "fk", row, seq)
        ELSE Outcome("ok", "", row, seq)

insertColumn(db, tbl, dir, row, colName) ==
    LET colDef == tbl.TableSchema[colName]
        row1 == IF HasKey(row, colName) THEN row ELSE MapSet(row, colName, GoNil)
    IN  IF colDef.NotNull /\ ~colDef.Sequence /\ ~HasKey(row, colName)
        THEN {Outcome("err", "null", row, dir.seq)}
        ELSE UNION {
               IF t.k = "continue" THEN {Outcome("ok", "", t.row, t.seq)}
               ELSE IF t.k # "ok" THEN {t}
               ELSE UNION {
                      IF u.k # "ok" THEN {u}
                      ELSE {insertReferenceCheck(db, tbl, u.row, colName, u.seq)}
                      : u \in insertUniqueCheck(tbl, dir, t.row, colName, t.seq)}
               : t \in insertTypeCheck(tbl, dir, row1, colName)}

(***************************************************************************)
(* Table.insert: the loop over the schema in the order the map iteration   *)
(* takes, then writeRow, then the index puts.                              *)
(***************************************************************************)
RECURSIVE insertSchemaLoop(_, _, _, _, _)
insertSchemaLoop(db, tbl, dir, row, order) ==
    IF order = <<>> THEN {Outcome("ok", "", row, dir.seq)}
    ELSE UNION {
           IF o.k # "ok" THEN {o}
           ELSE insertSchemaLoop(db, tbl, [dir EXCEPT !.seq = o.seq], o.row, Tail(order))
           : o \in insertColumn(db, tbl, dir, row, Head(order))}

writeRow(tbl, dat, row) ==
    LET encoded == EncodeRow(row).b
        compressed == IF tbl.Compress THEN Compress(encoded).b ELSE encoded
        encrypted == IF tbl.Encrypt
                     THEN Encrypt(tbl.HashedKey, tbl.Nonce, compressed).b
                     ELSE compressed
    IN  PagerWrite(dat, encrypted)

\* the inner loop of the index puts for one column of the row: val is the
\* loop variable of the outer loop, which the inner loop overwrites
RECURSIVE insertIndexColumn(_, _, _, _, _, _)
insertIndexColumn(tbl, bt, col, val, rowId, idxOrder) ==
    IF idxOrder = <<>> THEN [panic |-> FALSE, bt |-> bt]
    ELSE IF ~Contains(tbl.Indexes[Head(idxOrder)].Columns, col)
    THEN insertIndexColumn(tbl, bt, col, val, rowId, Tail(idxOrder))
    ELSE LET val1 == IF tbl.Compress THEN GoBytes(Compress(SprintfV(val)).b) ELSE val
         IN  IF tbl.Encrypt /\ val1.t # "[]byte"
             THEN [panic |-> TRUE, bt |-> bt]
             ELSE LET val2 == IF tbl.Encrypt
                              THEN GoBytes(Encrypt(tbl.HashedKey, tbl.Nonce, val1.v).b)
                              ELSE val1
                      bt2 == [bt EXCEPT ![Head(idxOrder)] =
                                 BTreePut(@, SprintfV(val2), Itoa(rowId))]
                  IN  insertIndexColumn(tbl, bt2, col, val2, rowId, Tail(idxOrder))

RECURSIVE insertIndexes(_, _, _, _, _)
insertIndexes(tbl, bt, row, rowId, colOrder) ==
    IF colOrder = <<>> THEN {[panic |-> FALSE, bt |-> bt]}
    ELSE UNION {
           LET r == insertIndexColumn(tbl, bt, Head(colOrder), row[Head(colOrder)],
                                      rowId, idxOrder)
           IN  IF r.panic THEN {r}
               ELSE insertIndexes(tbl, r.bt, row, rowId, Tail(colOrder))
           : idxOrder \in Perms(DOMAIN tbl.Indexes)}

InsertResult(err, panic, rowId, row, dir) ==
    [err |-> err, panic |-> panic, rowId |-> rowId, row |-> row, dir |-> dir]

insert(db, tbl, dir, row) ==
    UNION {
      IF o.k = "panic" THEN {InsertResult("", TRUE, -1, o.row, [dir EXCEPT !.seq = o.seq])}
      ELSE IF o.k = "err"
      THEN {InsertResult(o.err, FALSE, -1, o.row, [dir EXCEPT !.seq = o.seq])}
      ELSE LET w == writeRow(tbl, dir.dat, o.row)
               dir2 == [dir EXCEPT !.seq = o.seq, !.dat = w.dat]
           IN  {InsertResult("", x.panic, IF x.panic THEN -1 ELSE w.id, o.row,
                             [dir2 EXCEPT !.bt = x.bt])
                : x \in UNION {insertIndexes(tbl, dir.bt, o.row, w.id, colOrder)
                               : colOrder \in Perms(DOMAIN o.row)}}
      : o \in UNION {insertSchemaLoop(db, tbl, dir, row, order)
                     : order \in Perms(DOMAIN tbl.TableSchema)}}

(***************************************************************************)
(* Table.Insert: the rows one after the other, stopping at the first       *)
(* error with no ids.                                                      *)
(***************************************************************************)
\* variant of Table.Insert that goes on with the next row after a failure
RECURSIVE InsertLoop_SkipsFailedRow(_, _, _, _, _, _)
InsertLoop_SkipsFailedRow(db, tbl, dir, rows, rowIds, insertedRows) ==
    IF rows = <<>>
    THEN {[err |-> "", panic |-> FALSE, rowIds |-> rowIds, rows |-> insertedRows,
           dir |-> dir]}
    ELSE UNION {
           IF r.panic
           THEN {[err |-> r.err, panic |-> r.panic, rowIds |-> <<>>, rows |-> <<>>,
                  dir |-> r.dir]}
           ELSE IF r.err # ""
           THEN {[x EXCEPT !.err = r.err, !.rowIds = <<>>, !.rows = <<>>]
                 : x \in InsertLoop_SkipsFailedRow(db, tbl, r.dir, Tail(rows), rowIds,
                                                   insertedRows)}
           ELSE InsertLoop_SkipsFailedRow(db, tbl, r.dir, Tail(rows),
                                          Append(rowIds, r.rowId), Append(insertedRows, r.row))
           : r \in insert(db, tbl, dir, Head(rows))}

RECURSIVE InsertLoop(_, _, _, _, _, _)
InsertLoop(db, tbl, dir, rows, rowIds, insertedRows) ==
    IF rows = <<>>
    THEN {[err |-> "", panic |-> FALSE, rowIds |-> rowIds, rows |-> insertedRows,
           dir |-> dir]}
    ELSE UNION {
           IF r.panic \/ r.err # ""
           THEN {[err |-> r.err, panic |-> r.panic, rowIds |-> <<>>, rows |-> <<>>,
                  dir |-> r.dir]}
           ELSE InsertLoop(db, tbl, r.dir, Tail(rows), Append(rowIds, r.rowId),
                           Append(insertedRows, r.row))
           : r \in insert(db, tbl, dir, Head(rows))}

Insert(db, tbl, dir, rows) == InsertLoop(db, tbl, dir, rows, <<>>, <<>>)

(***************************************************************************)
(* Table.GetRow: decrypt, decompress, decode.                              *)
(***************************************************************************)
GetRow(tbl, dat, rowId) ==
    LET page == PagerGetPage(dat, rowId)
        decrypted == IF tbl.Encrypt THEN Decrypt(tbl.HashedKey, tbl.Nonce, page.b).b
                     ELSE page.b
        decompressed == IF tbl.Compress THEN Decompress(decrypted)
                        ELSE [err |-> FALSE, b |-> decrypted]
        decoded == decodeRow(decompressed.b)
    IN  IF page.err \/ decompressed.err \/ decoded.err
        THEN [err |-> TRUE, row |-> <<>>]
        ELSE [err |-> FALSE, row |-> decoded.row]

(***************************************************************************)
(* Table.DeleteRow: the page is decoded as it is stored; the index entries *)
(* of the decoded values are removed, then the page is deleted.            *)
(***************************************************************************)
RemoveColumnFromIndexes(tbl, bt, col, key, value) ==
    [n \in DOMAIN bt |->
        IF n \in DOMAIN tbl.Indexes /\ Contains(tbl.Indexes[n].Columns, col)
        THEN BTreeRemove(bt[n], key, value)
        ELSE bt[n]]

RECURSIVE DeleteRowIndexes(_, _, _, _, _)
DeleteRowIndexes(tbl, bt, decoded, rowId, cols) ==
    IF cols = {} THEN bt
    ELSE LET col == CHOOSE c \in cols : TRUE
         IN  DeleteRowIndexes(tbl,
                 RemoveColumnFromIndexes(tbl, bt, col, SprintfV(decoded[col]), Itoa(rowId)),
                 decoded, rowId, cols \ {col})

DeleteRow(tbl, dir, rowId) ==
    LET row == PagerGetPage(dir.dat, rowId)
        decoded == decodeRow(row.b)
        bt2 == DeleteRowIndexes(tbl, dir.bt, decoded.row, rowId, DOMAIN decoded.row)
        del == PagerDeletePage(dir.dat, rowId)
    IN  IF row.err THEN [err |-> "getpage", dir |-> dir]
        ELSE IF decoded.err THEN [err |-> "decode", dir |-> dir]
        ELSE IF del.err THEN [err |-> "deletepage", dir |-> [dir EXCEPT !.bt = bt2]]
        ELSE [err |-> "", dir |-> [dir EXCEPT !.bt = bt2, !.dat = del.dat]]

(***************************************************************************)
(* Table.UpdateRow.  A set clause is [ColumnName, Value].  prevRow is the  *)
(* copy of the row taken before the last set clause was applied.           *)
(***************************************************************************)
UpdateTypeCheck(tbl, row, colName) ==
    IF colName \notin DOMAIN tbl.TableSchema THEN ""
    ELSE LET colDef == tbl.TableSchema[colName]
             val == row[colName]
         IN  CASE colDef.DataType \in {"CHARACTER", "CHAR"} ->
                    IF val.t # "string"
                    THEN IF ~colDef.NotNull /\ val # GoNil THEN "type" ELSE ""
                    ELSE IF Len(val.v) > colDef.Length THEN "toolong" ELSE ""
               [] colDef.DataType \in {"INT", "INTEGER", "SMALLINT"} ->
                    IF val.t \notin {"int", "uint64"} THEN "type"
                    ELSE IF colDef.DataType \in {"INT", "INTEGER"}
                            /\ IntGreater(IntOfUint64(val), INT_MAX)
                    THEN "toolarge"
                    ELSE IF colDef.DataType = "SMALLINT"
                            /\ IntGreater(IntOfUint64(val), SMALLINT_MAX)
                    THEN "toolarge"
                    ELSE ""
               [] OTHER -> ""

RECURSIVE UpdateApplySets(_, _, _, _)
UpdateApplySets(tbl, row, prevRow, sets) ==
    IF sets = <<>> THEN [err |-> "", row |-> row, prevRow |-> prevRow]
    ELSE LET set == Head(sets)
             row2 == MapSet(row, set.ColumnName, set.Value)
             e == UpdateTypeCheck(tbl, row2, set.ColumnName)
             \* row[colName] = int(row[colName].(uint64)) of an integer column
             row3 == IF /\ set.ColumnName \in DOMAIN tbl.TableSchema
                        /\ tbl.TableSchema[set.ColumnName].DataType
                              \in {"INT", "INTEGER", "SMALLINT"}
                        /\ set.Value.t = "uint64"
                     THEN MapSet(row, set.ColumnName, IntOfUint64(set.Value))
                     ELSE row2
         IN  IF ~HasKey(row, set.ColumnName)
             THEN [err |-> "nocolumn", row |-> row, prevRow |-> prevRow]
             ELSE IF e # "" THEN [err |-> e, row |-> row3, prevRow |-> row]
             ELSE UpdateApplySets(tbl, row3, row, Tail(sets))

RECURSIVE UpdateIndexes(_, _, _, _, _, _)
UpdateIndexes(tbl, bt, row, prevRow, rowId, sets) ==
    IF sets = <<>> THEN bt
    ELSE LET colName == Head(sets).ColumnName
             bt2 == [n \in DOMAIN bt |->
                        IF colName \in DOMAIN tbl.TableSchema
                           /\ n \in DOMAIN tbl.Indexes
                           /\ Contains(tbl.Indexes[n].Columns, colName)
                        THEN BTreePut(
                               BTreeRemove(bt[n], SprintfV(prevRow[colName]), Itoa(rowId)),
                               SprintfV(row[colName]), Itoa(rowId))
                        ELSE bt[n]]
         IN  UpdateIndexes(tbl, bt2, row, prevRow, rowId, Tail(sets))

\* variant of UpdateRow that writes the page before it looks at the result
\* of the validation
UpdateRow_WritesBeforeValidation(tbl, dir, rowId, row, sets) ==
    LET a == UpdateApplySets(tbl, row, <<>>, sets)
        w == PagerWriteTo(dir.dat, rowId, EncodeRow(a.row).b)
    IN  IF w.err THEN [err |-> "writeto", dir |-> dir]
        ELSE IF a.err # "" THEN [err |-> a.err, dir |-> [dir EXCEPT !.dat = w.dat]]
        ELSE [err |-> "",
              dir |-> [dir EXCEPT !.dat = w.dat,
                                  !.bt = UpdateIndexes(tbl, dir.bt, a.row, a.prevRow,
                                                       rowId, sets)]]

UpdateRow(tbl, dir, rowId, row, sets) ==
    LET a == UpdateApplySets(tbl, row, <<>>, sets)
        w == PagerWriteTo(dir.dat, rowId, EncodeRow(a.row).b)
    IN  IF a.err # "" THEN [err |-> a.err, dir |-> dir]
        ELSE IF w.err THEN [err |-> "writeto", dir |-> dir]
        ELSE [err |-> "",
              dir |-> [dir EXCEPT !.dat = w.dat,
                                  !.bt = UpdateIndexes(tbl, dir.bt, a.row, a.prevRow,
                                                       rowId, sets)]]

(***************************************************************************)
(* Table.CreateIndex.  The .idx file holds the exported fields of the      *)
(* Index; the .bt file is the B-tree, opened without truncation.           *)
(***************************************************************************)
MAX_COLUMN_NAME_SIZE == 64
MAX_TABLE_NAME_SIZE == 64
MAX_INDEX_NAME_SIZE == 64

NewIndex(name, columns, unique) ==
    [Name |-> name, Columns |-> columns, Unique |-> unique, lock |-> TRUE]

\* gob writes the exported fields; decoded into &Index{} the lock is nil
GobIndex(idx) == [idx EXCEPT !.lock = FALSE]

CreateIndex(tbl, dir, name, columns, unique) ==
    IF Len(name) > MAX_INDEX_NAME_SIZE THEN [err |-> "toolong", tbl |-> tbl, dir |-> dir]
    ELSE IF name \in DOMAIN tbl.Indexes THEN [err |-> "exists", tbl |-> tbl, dir |-> dir]
    ELSE [err |-> "",
          tbl |-> [tbl EXCEPT !.Indexes = MapSet(@, name, NewIndex(name, columns, unique))],
          dir |-> [dir EXCEPT
                     !.bt = IF name \in DOMAIN @ THEN @ ELSE MapSet(@, name, {}),
                     !.idx = MapSet(@, name, <<"gob", GobIndex(NewIndex(name, columns, unique))>>)]]

(***************************************************************************)
(* Database.CreateTable.  db is db.Tables, disk the table directories of   *)
(* the database directory, which also holds the procedures file.           *)
(***************************************************************************)
DbName == "d"
ProceduresFileName == DbName \o ".proc"

\* shared.IsValidDataType: the closed set of data types
IsValidDataType(dataType) ==
    dataType \in {"CHARACTER", "CHAR", "NUMERIC", "DECIMAL", "DEC", "FLOAT", "DOUBLE",
                  "REAL", "INT", "INTEGER", "SMALLINT", "DATE", "TIME", "TIMESTAMP",
                  "DATETIME", "BINARY", "UUID", "BOOLEAN", "BOOL", "TEXT", "BLOB"}

ZeroKey == <<"zero32">>
\* a zero byte, and the i-th byte of a digest (the digest is opaque)
ZeroByte == [byte |-> "zero", i |-> 0, of |-> <<>>]

HashByte(hashBytes, i) == [byte |-> "digest", i |-> i, of |-> hashBytes]

\* [12]byte{}
ZeroNonce == [i \in 1..12 |-> ZeroByte]

Sha256(key) == <<"sha256", key>>

\* hashBytes[len(hashBytes)-12:] of a 32-byte digest
HashTail(hashBytes) == [i \in 1..12 |-> HashByte(hashBytes, 20 + i)]

\* [12]byte(s) of a slice of at least 12 bytes: its first 12 elements
ToNonceArray(s) == SubSeq(s, 1, 12)

\* [12]byte(append(Nonce[:], hashBytes[len(hashBytes)-12:]...)): the append
\* puts the tail of the digest after the 12 bytes the nonce already has
DeriveNonce(hashBytes) == ToNonceArray(ZeroNonce \o HashTail(hashBytes))

\* the Table literal of CreateTable: every other field has its zero value
NewTable(name, tblSchema) ==
    [Name |-> name, Indexes |-> <<>>, TableSchema |-> tblSchema, Rows |-> FALSE,
     SequenceFile |-> "nil", SeqLock |-> FALSE, Compress |-> FALSE, Encrypt |-> FALSE,
     HashedKey |-> ZeroKey, Nonce |-> ZeroNonce]

EmptyDir == [schma |-> <<>>, seq |-> <<>>, dat |-> EmptyPager, idx |-> <<>>, bt |-> <<>>]

\* os.Mkdir of a table directory fails when the name is taken
MkdirFails(disk, name) == name \in DOMAIN disk \/ name = ProceduresFileName

CreateTableColumn(tbl, dir, colName, sequenceDefined) ==
    LET colDef == tbl.TableSchema[colName]
        ci == IF colDef.Unique
              THEN CreateIndex(tbl, dir, "unique_" \o colName, <<colName>>, TRUE)
              ELSE [err |-> "", tbl |-> tbl, dir |-> dir]
        R(err) == [err |-> err, tbl |-> ci.tbl, dir |-> ci.dir,
                   sequenceDefined |-> sequenceDefined \/ colDef.Sequence]
    IN  IF Len(colName) > MAX_COLUMN_NAME_SIZE THEN R("toolong")
        ELSE IF ~IsValidDataType(colDef.DataType) THEN R("datatype")
        ELSE IF ci.err # "" THEN R(ci.err)
        ELSE IF colDef.Sequence /\ sequenceDefined THEN R("oneseq")
        ELSE IF colDef.Sequence /\ (~colDef.Unique \/ ~colDef.NotNull) THEN R("sequnique")
        ELSE IF colDef.Sequence /\ colDef.DataType \notin {"INT", "INTEGER"} THEN R("seqint")
        ELSE IF colDef.DataType \in {"CHARACTER", "CHAR"} /\ colDef.Length = 0
        THEN R("length")
        ELSE IF colDef.DataType \in {"NUMERIC", "DECIMAL", "DEC", "FLOAT", "DOUBLE", "REAL"}
                /\ (colDef.Precision = 0 \/ colDef.Scale = 0)
        THEN R("precision")
        ELSE R("")

RECURSIVE CreateTableColumns(_, _, _, _)
CreateTableColumns(tbl, dir, order, sequenceDefined) ==
    IF order = <<>> THEN [err |-> "", tbl |-> tbl, dir |-> dir]
    ELSE LET r == CreateTableColumn(tbl, dir, Head(order), sequenceDefined)
         IN  IF r.err # "" THEN [err |-> r.err, tbl |-> r.tbl, dir |-> r.dir]
             ELSE CreateTableColumns(r.tbl, r.dir, Tail(order), r.sequenceDefined)

\* variant of CreateTable whose data file starts with a page in it
CreateTableWith_KeepsOldPages(db, disk, name, tblSchema, encrypt, compress, key, order) ==
    LET cols == CreateTableColumns(NewTable(name, tblSchema), EmptyDir, order, FALSE)
        tbl == [cols.tbl EXCEPT
                  !.Encrypt = encrypt,
                  !.HashedKey = IF encrypt THEN Sha256(key) ELSE @,
                  !.Nonce = IF encrypt THEN DeriveNonce(Sha256(key)) ELSE @,
                  !.Compress = compress,
                  !.Rows = TRUE,
                  !.SequenceFile = "rw",
                  !.SeqLock = TRUE]
        dir == [cols.dir EXCEPT !.schma = <<"gob", tblSchema>>,
                                !.dat = PagerWrite(@, EncodeRow(<<>>).b).dat]
    IN  IF Len(name) > MAX_TABLE_NAME_SIZE THEN [err |-> "toolong", db |-> db, disk |-> disk]
        ELSE IF name \in DOMAIN db THEN [err |-> "exists", db |-> db, disk |-> disk]
        ELSE IF MkdirFails(disk, name)
        THEN [err |-> "mkdir", db |-> MapSet(db, name, NewTable(name, tblSchema)),
              disk |-> disk]
        ELSE IF cols.err # "" THEN [err |-> cols.err, db |-> db, disk |-> disk]
        ELSE [err |-> "", db |-> MapSet(db, name, tbl), disk |-> MapSet(disk, name, dir)]

CreateTableWith(db, disk, name, tblSchema, encrypt, compress, key, order) ==
    LET cols == CreateTableColumns(NewTable(name, tblSchema), EmptyDir, order, FALSE)
        tbl == [cols.tbl EXCEPT
                  !.Encrypt = encrypt,
                  !.HashedKey = IF encrypt THEN Sha256(key) ELSE @,
                  !.Nonce = IF encrypt THEN DeriveNonce(Sha256(key)) ELSE @,
                  !.Compress = compress,
                  !.Rows = TRUE,
                  !.SequenceFile = "rw",
                  !.SeqLock = TRUE]
        dir == [cols.dir EXCEPT !.schma = <<"gob", tblSchema>>]
    IN  IF Len(name) > MAX_TABLE_NAME_SIZE THEN [err |-> "toolong", db |-> db, disk |-> disk]
        ELSE IF name \in DOMAIN db THEN [err |-> "exists", db |-> db, disk |-> disk]
        ELSE IF MkdirFails(disk, name)
        THEN [err |-> "mkdir", db |-> MapSet(db, name, NewTable(name, tblSchema)),
              disk |-> disk]
        ELSE IF cols.err # "" THEN [err |-> cols.err, db |-> db, disk |-> disk]
        ELSE [err |-> "", db |-> MapSet(db, name, tbl), disk |-> MapSet(disk, name, dir)]

CreateTable(db, disk, name, tblSchema, encrypt, compress, key) ==
    {CreateTableWith(db, disk, name, tblSchema, encrypt, compress, key, order)
       : order \in Perms(DOMAIN tblSchema)}

NilTable == [Name |-> "<nil>"]

GetTable(db, tableName) == IF tableName \in DOMAIN db THEN db[tableName] ELSE NilTable

(***************************************************************************)
(* Catalog.Open, the reconstruction of the tables of the database from its *)
(* directory: the schema file, the pager, the sequence file opened with    *)
(* os.Open, and one Index per .idx file.                                   *)
(***************************************************************************)
OpenTable(name, dir) ==
    [Name |-> name,
     Indexes |-> [f \in {dir.idx[i][2].Name : i \in DOMAIN dir.idx} |->
                    LET i == CHOOSE j \in DOMAIN dir.idx : dir.idx[j][2].Name = f
                    IN  [dir.idx[i][2] EXCEPT !.lock = TRUE]],
     TableSchema |-> dir.schma[2],
     Rows |-> TRUE,
     SequenceFile |-> "ro",
     SeqLock |-> FALSE,
     Compress |-> FALSE,
     Encrypt |-> FALSE,
     HashedKey |-> ZeroKey,
     Nonce |-> ZeroNonce]

OpenTables(disk) == [name \in DOMAIN disk |-> OpenTable(name, disk[name])]

(***************************************************************************)
(* Iterator over the rows of a table.                                      *)
(***************************************************************************)
NewIterator == [row |-> 0]

IteratorValid(ri, dat) == ri.row < PagerCount(dat)

\* the loop of Next that steps over the pages the pager reports deleted; it
\* does not look at Count
RECURSIVE IteratorSkipDeleted(_, _)
IteratorSkipDeleted(row, dat) ==
    IF row \in PagerGetDeletedPages(dat) THEN IteratorSkipDeleted(row + 1, dat) ELSE row

\* Iterator.Next: the page is decoded as it is read, neither decrypted nor
\* decompressed; a page that does not decode is stepped over with nil, nil,
\* and an error of GetPage is returned with the cursor left where it is
IteratorNextWith(ri, dat, GetPage(_)) ==
    LET row == IteratorSkipDeleted(ri.row, dat)
        page == GetPage(row)
        decoded == decodeRow(page.b)
    IN  IF page.err THEN [ri |-> [row |-> row], row |-> GoNil, err |-> TRUE]
        ELSE IF decoded.err THEN [ri |-> [row |-> row + 1], row |-> GoNil, err |-> FALSE]
        ELSE [ri |-> [row |-> row + 1], row |-> decoded.row, err |-> FALSE]

\* Next on a pager whose reads succeed
IteratorNext(ri, dat) ==
    LET GetPage(id) == PagerGetPage(dat, id)
    IN  IteratorNextWith(ri, dat, GetPage)

\* Next on a pager whose read fails
IteratorNextFailing(ri, dat) ==
    LET GetPage(id) == [err |-> TRUE, b |-> <<>>]
    IN  IteratorNextWith(ri, dat, GetPage)

\* for ri.Valid() { row, err := ri.Next(); ... }: the caller's loop, which
\* collects the rows that are not nil and stops at an error
RECURSIVE Iterate(_, _, _)
Iterate(ri, dat, rows) ==
    IF ~IteratorValid(ri, dat) THEN [rows |-> rows, err |-> FALSE]
    ELSE LET n == IteratorNext(ri, dat)
         IN  IF n.err THEN [rows |-> rows, err |-> TRUE]
             ELSE Iterate(n.ri, dat, IF n.row = GoNil THEN rows ELSE Append(rows, n.row))

(***************************************************************************)
(* Users and privileges.                                                   *)
(***************************************************************************)
PRIV_ALL == "ALL"

\* shared.HashPassword
HashPassword(password) == <<"bcrypt", password>>

NewPrivilege(databaseName, tableName, privilegeActions) ==
    [DatabaseName |-> databaseName, TableName |-> tableName,
     PrivilegeActions |-> privilegeActions]

CreateNewUser(users, username, password) ==
    IF username \in DOMAIN users THEN [err |-> "exists", users |-> users]
    ELSE [err |-> "",
          users |-> MapSet(users, username,
                           [Username |-> username, Password |-> HashPassword(password),
                            Privileges |-> <<>>])]

\* variant of GrantPrivilegeToUser without the check for an existing entry
GrantPrivilegeToUser_NoExistsCheck(users, username, priv) ==
    IF username \notin DOMAIN users THEN [err |-> "nouser", users |-> users]
    ELSE [err |-> "", users |-> [users EXCEPT ![username].Privileges = Append(@, priv)]]

GrantPrivilegeToUser(users, username, priv) ==
    IF username \notin DOMAIN users THEN [err |-> "nouser", users |-> users]
    ELSE IF \E i \in DOMAIN users[username].Privileges :
              /\ users[username].Privileges[i].DatabaseName = priv.DatabaseName
              /\ users[username].Privileges[i].TableName = priv.TableName
    THEN [err |-> "exists", users |-> users]
    ELSE [err |-> "", users |-> [users EXCEPT ![username].Privileges = Append(@, priv)]]

\* one pass of the loop over l.PrivilegeActions for the action a: the range
\* runs over the n0 cells the slice had when the pass began and reads each
\* cell from the array as it then is; a match at cell j replaces the slice
\* by append(s[:j], s[j+1:]...), which moves the cells behind j one place
\* down in the same array and fails with a slice bounds panic when j lies
\* beyond the slice as the earlier matches of the pass have left it (cells
\* are counted from 1 here, the slice is cells 1..m)
RECURSIVE RevokeRange(_, _, _, _)
RevokeRange(b, m, a, j) ==
    IF j > Len(b) THEN [panic |-> FALSE, actions |-> SubSeq(b, 1, m)]
    ELSE IF b[j] = a
    THEN IF j > m THEN [panic |-> TRUE, actions |-> SubSeq(b, 1, m)]
         ELSE RevokeRange([k \in 1..Len(b) |-> IF k >= j /\ k < m THEN b[k + 1] ELSE b[k]],
                          m - 1, a, j + 1)
    ELSE RevokeRange(b, m, a, j + 1)

\* the loop over priv.PrivilegeActions
RECURSIVE RevokeActions(_, _)
RevokeActions(privilegeActions, actions) ==
    IF actions = <<>> THEN [panic |-> FALSE, actions |-> privilegeActions]
    ELSE LET r == RevokeRange(privilegeActions, Len(privilegeActions), Head(actions), 1)
         IN  IF r.panic THEN r ELSE RevokeActions(r.actions, Tail(actions))

\* the condition of the inner loop compares l with itself, so the entry it
\* stops at is the first one
RevokePrivilegeFromUser(users, username, priv) ==
    IF username \notin DOMAIN users
    THEN [err |-> "nouser", panic |-> FALSE, users |-> users]
    ELSE IF ~\E i \in DOMAIN users[username].Privileges :
                /\ users[username].Privileges[i].DatabaseName = priv.DatabaseName
                /\ users[username].Privileges[i].TableName = priv.TableName
    THEN [err |-> "noprivilege", panic |-> FALSE, users |-> users]
    ELSE LET l == users[username].Privileges[1]
         IN  IF Len(l.PrivilegeActions) = Len(priv.PrivilegeActions)
             THEN [err |-> "", panic |-> FALSE,
                   users |-> [users EXCEPT ![username].Privileges = Tail(@)]]
             ELSE LET r == RevokeActions(l.PrivilegeActions, priv.PrivilegeActions)
                  IN  [err |-> "", panic |-> r.panic,
                       users |-> [users EXCEPT
                                    ![username].Privileges[1].PrivilegeActions = r.actions]]

DropUser(users, username) ==
    IF username \notin DOMAIN users THEN [err |-> "nouser", users |-> users]
    ELSE [err |-> "", users |-> MapDelete(users, username)]

AlterUserUsername(users, oldUsername, newUsername) ==
    IF oldUsername \notin DOMAIN users THEN [err |-> "nouser", users |-> users]
    ELSE IF newUsername \in DOMAIN users THEN [err |-> "exists", users |-> users]
    ELSE [err |-> "",
          users |-> MapDelete(MapSet(users, newUsername,
                                     [users[oldUsername] EXCEPT !.Username = newUsername]),
                              oldUsername)]

\* AlterUserPassword with the stored digest left as it was
AlterUserPassword_KeepsPassword(users, username, password) ==
    IF username \notin DOMAIN users THEN [err |-> "nouser", users |-> users]
    ELSE [err |-> "", users |-> users]

AlterUserPassword(users, username, password) ==
    IF username \notin DOMAIN users THEN [err |-> "nouser", users |-> users]
    ELSE [err |-> "", users |-> [users EXCEPT ![username].Password = HashPassword(password)]]

ComparePasswords(hashedPassword, password) == hashedPassword = HashPassword(password)

NilUser == [Username |-> "", Password |-> <<>>, Privileges |-> <<>>]

AuthenticateUser(users, username, password) ==
    IF username \notin DOMAIN users THEN [err |-> "nouser", user |-> NilUser, ok |-> FALSE]
    ELSE IF ~ComparePasswords(users[username].Password, password)
    THEN [err |-> "authentication failed", user |-> NilUser, ok |-> FALSE]
    ELSE [err |-> "", user |-> users[username], ok |-> TRUE]

\* the users file: empty, or the encoding of the users written from its
\* start; what an earlier and longer encoding leaves behind it is not read
EmptyFile == <<>>

EncodeUsersToFile(users) == <<"gob", users>>

ReadUsersFromFile(file) ==
    IF file = EmptyFile THEN [err |-> "users file is empty", users |-> <<>>]
    ELSE [err |-> "", users |-> file[2]]

\* which branch of HasPrivilege the entry p takes for (db, tbl)
PrivilegeApplies(p, db, tbl) ==
    \/ p.DatabaseName = db /\ p.TableName = tbl
    \/ p.DatabaseName = "*" /\ p.TableName = "*"
    \/ p.DatabaseName = db /\ p.TableName = "*"
    \/ p.DatabaseName = "*" /\ p.TableName = tbl

\* the number of booleans the loop over p.PrivilegeActions appends for a
RECURSIVE HasAppends(_, _)
HasAppends(privilegeActions, a) ==
    IF privilegeActions = <<>> THEN 0
    ELSE (IF Head(privilegeActions) = a \/ Head(privilegeActions) = PRIV_ALL THEN 1 ELSE 0)
         + HasAppends(Tail(privilegeActions), a)

RECURSIVE HasOfActions(_, _, _, _)
HasOfActions(p, db, tbl, actions) ==
    IF actions = <<>> THEN 0
    ELSE (IF PrivilegeApplies(p, db, tbl) THEN HasAppends(p.PrivilegeActions, Head(actions))
          ELSE 0)
         + HasOfActions(p, db, tbl, Tail(actions))

\* len(has) after the loop over the privileges of the user
RECURSIVE HasOfPrivileges(_, _, _, _)
HasOfPrivileges(privileges, db, tbl, actions) ==
    IF privileges = <<>> THEN 0
    ELSE HasOfActions(Head(privileges), db, tbl, actions)
         + HasOfPrivileges(Tail(privileges), db, tbl, actions)

HasPrivilege(u, db, tbl, actions) ==
    HasOfPrivileges(u.Privileges, db, tbl, actions) = Len(actions)

\* the users of a catalog opened on a new directory
DefaultUsers ==
    GrantPrivilegeToUser(CreateNewUser(<<>>, "admin", "admin").users, "admin",
                         NewPrivilege("*", "*", <<PRIV_ALL>>)).users

\* Open with the seeding taken on every file, empty or not
OpenUsers_AlwaysSeeds(bytes) ==
    [err |-> "", users |-> DefaultUsers, bytes |-> EncodeUsersToFile(DefaultUsers)]

\* the users part of Catalog.Open: the users file is read, and an empty one
\* is seeded by CreateNewUser and GrantPrivilegeToUser, whose error, nil
\* when both succeed, is the one returned
OpenUsers(bytes) ==
    LET r == ReadUsersFromFile(bytes)
    IN  IF r.err # ""
        THEN LET c == CreateNewUser(<<>>, "admin", "admin")
                 g == GrantPrivilegeToUser(c.users, "admin",
                                           NewPrivilege("*", "*", <<PRIV_ALL>>))
             IN  IF c.err # ""
                 THEN [err |-> c.err, users |-> c.users, bytes |-> bytes]
                 ELSE IF g.err # ""
                 THEN [err |-> g.err, users |-> g.users,
                       bytes |-> EncodeUsersToFile(c.users)]
                 ELSE [err |-> "", users |-> g.users, bytes |-> EncodeUsersToFile(g.users)]
        ELSE [err |-> "", users |-> r.users, bytes |-> bytes]

\* the users file of a catalog opened on a new directory (cat.UsersFile is
\* open, the file holds what the seeding wrote)
DefaultUsersFile == [open |-> TRUE, bytes |-> EncodeUsersToFile(DefaultUsers)]

(***************************************************************************)
(* Table.DropIndex and Table.Alter.  A nil column definition drops the     *)
(* column; the loops over tbl.Indexes take the order the map iteration     *)
(* takes.  Alter writes a row back to ri.Current(), which after Next is    *)
(* the row-id behind the row that was read.                                *)
(***************************************************************************)
DropIndex(tbl, dir, name) ==
    LET tbl2 == [tbl EXCEPT !.Indexes = MapDelete(@, name)]
    IN  IF name \notin DOMAIN tbl.Indexes THEN [err |-> "noindex", tbl |-> tbl, dir |-> dir]
        ELSE IF name \notin DOMAIN dir.idx THEN [err |-> "remove", tbl |-> tbl2, dir |-> dir]
        ELSE IF name \notin DOMAIN dir.bt
        THEN [err |-> "remove", tbl |-> tbl2, dir |-> [dir EXCEPT !.idx = MapDelete(@, name)]]
        ELSE [err |-> "", tbl |-> tbl2,
              dir |-> [dir EXCEPT !.idx = MapDelete(@, name), !.bt = MapDelete(@, name)]]

NilColumnDefinition == [DataType |-> "<nil>"]

NoIndex == "<nil>"

\* the loop over idx.Columns that takes columnName out of the slice it
\* ranges over, as the loop of RevokePrivilegeFromUser does with an action
AlterRemoveColumn(columns, columnName) == RevokeRange(columns, Len(columns), columnName, 1)

\* the loop over tbl.Indexes of the drop; existing is existingIndexValues
RECURSIVE AlterDropIndexes(_, _, _, _, _)
AlterDropIndexes(tbl, dir, columnName, idxOrder, existing) ==
    IF idxOrder = <<>>
    THEN [err |-> "", panic |-> FALSE, tbl |-> tbl, dir |-> dir, existing |-> existing]
    ELSE LET idx == tbl.Indexes[Head(idxOrder)]
             d == DropIndex(tbl, dir, idx.Name)
             r == AlterRemoveColumn(idx.Columns, columnName)
             tbl2 == [tbl EXCEPT !.Indexes[Head(idxOrder)].Columns = r.actions]
         IN  IF ~Contains(idx.Columns, columnName)
             THEN AlterDropIndexes(tbl, dir, columnName, Tail(idxOrder), existing)
             ELSE IF Len(idx.Columns) = 1
             THEN IF d.err # ""
                  THEN [err |-> d.err, panic |-> FALSE, tbl |-> d.tbl, dir |-> d.dir,
                        existing |-> existing]
                  ELSE AlterDropIndexes(d.tbl, d.dir, columnName, Tail(idxOrder), existing)
             ELSE IF r.panic
             THEN [err |-> "", panic |-> TRUE, tbl |-> tbl2, dir |-> dir,
                   existing |-> existing]
             ELSE AlterDropIndexes(tbl2, dir, columnName, Tail(idxOrder),
                                   IF idx.Unique THEN existing ELSE Head(idxOrder))

\* the loop over the rows of the drop; a page that does not decode gives a
\* nil row, which is written back as the empty row
RECURSIVE AlterDropRows(_, _, _, _, _)
AlterDropRows(tbl, dir, ri, columnName, existing) ==
    IF ~IteratorValid(ri, dir.dat) THEN [err |-> "", dir |-> dir]
    ELSE LET n == IteratorNext(ri, dir.dat)
             row == IF n.row = GoNil THEN <<>> ELSE n.row
             Current == n.ri.row
             bt2 == IF HasKey(row, columnName) /\ existing # NoIndex
                    THEN [dir.bt EXCEPT ![existing] =
                            BTreeRemove(@, SprintfV(row[columnName]), Itoa(Current))]
                    ELSE dir.bt
             encoded == EncodeRow(MapDelete(row, columnName)).b
             compressed == IF tbl.Compress THEN Compress(encoded).b ELSE encoded
             encrypted == IF tbl.Encrypt
                          THEN Encrypt(tbl.HashedKey, tbl.Nonce, compressed).b
                          ELSE compressed
             w == PagerWriteTo(dir.dat, Current, encrypted)
         IN  IF n.err THEN AlterDropRows(tbl, dir, n.ri, columnName, existing)
             ELSE IF w.err THEN [err |-> "writeto", dir |-> [dir EXCEPT !.bt = bt2]]
             ELSE AlterDropRows(tbl, [dir EXCEPT !.bt = bt2, !.dat = w.dat], n.ri,
                                columnName, existing)

\* what the unique check of the add finds for one row that has the column:
\* the value is compressed and encrypted as the flags say (the encryption
\* asserts a byte slice), looked up in the index idx, and compared with the
\* column of every row the index names (two byte slices do not compare)
AlterUniqueOutcomes(tbl, dir, idx, columnName, val) ==
    LET c == IF tbl.Compress THEN GoBytes(Compress(SprintfV(val)).b) ELSE val
        e == IF tbl.Encrypt THEN GoBytes(Encrypt(tbl.HashedKey, tbl.Nonce, c.v).b) ELSE c
        V == BTreeGet(dir.bt[idx], SprintfV(e))
        Of(rowId) ==
            LET id == Atoi(rowId)
                r == GetRow(tbl, dir.dat, id.n)
            IN  IF id.err \/ r.err THEN "problem"
                ELSE IF ~HasKey(r.row, columnName) THEN IF e = GoNil THEN "exists" ELSE ""
                ELSE IF r.row[columnName].t = "[]byte" /\ e.t = "[]byte" THEN "panic"
                ELSE IF r.row[columnName] = e THEN "exists"
                ELSE ""
    IN  IF tbl.Encrypt /\ c.t # "[]byte" THEN {"panic"}
        ELSE IF {Of(rowId) : rowId \in V} \ {""} = {} THEN {""}
        ELSE {Of(rowId) : rowId \in V} \ {""}

\* the loop over the rows of the add: the set of errors it can end with
\* ("" for none, "panic" for a run-time panic)
RECURSIVE AlterAddRows(_, _, _, _, _)
AlterAddRows(tbl, dir, ri, columnName, columnDef) ==
    IF ~IteratorValid(ri, dir.dat) THEN {""}
    ELSE LET n == IteratorNext(ri, dir.dat)
             row == IF n.row = GoNil THEN <<>> ELSE n.row
             idxs == CheckIndexedColumn(tbl, columnName, TRUE)
             rest == AlterAddRows(tbl, dir, n.ri, columnName, columnDef)
         IN  IF n.err THEN rest
             ELSE IF (columnDef.NotNull \/ columnDef.Unique) /\ ~HasKey(row, columnName)
             THEN {"null"}
             ELSE IF ~columnDef.Unique THEN rest
             ELSE IF idxs = {} THEN {"problem"}
             ELSE UNION {UNION {IF o = "" THEN rest ELSE {o}
                                : o \in AlterUniqueOutcomes(tbl, dir, idx, columnName,
                                                            row[columnName])}
                         : idx \in idxs}

\* the add of a column that is not in the schema, up to the rewrite of the
\* schema file
AlterAddColumn(tbl, dir, columnName, columnDef) ==
    LET ci == IF columnDef.Unique
              THEN CreateIndex(tbl, dir, "unique_" \o columnName, <<columnName>>, TRUE)
              ELSE [err |-> "", tbl |-> tbl, dir |-> dir]
        schema == MapSet(tbl.TableSchema, columnName, columnDef)
        R(err) == [err |-> err, tbl |-> ci.tbl, dir |-> ci.dir]
    IN  IF Len(columnName) > MAX_COLUMN_NAME_SIZE
        THEN [err |-> "toolong", tbl |-> tbl, dir |-> dir]
        ELSE IF ~IsValidDataType(columnDef.DataType)
        THEN [err |-> "datatype", tbl |-> tbl, dir |-> dir]
        ELSE IF ci.err # "" THEN R(ci.err)
        ELSE IF columnDef.Sequence /\ \E c \in DOMAIN tbl.TableSchema :
                                         tbl.TableSchema[c].Sequence
        THEN R("oneseq")
        ELSE IF columnDef.Sequence /\ (~columnDef.Unique \/ ~columnDef.NotNull)
        THEN R("sequnique")
        ELSE IF columnDef.Sequence /\ columnDef.DataType \notin {"INT", "INTEGER"}
        THEN R("seqint")
        ELSE IF columnDef.DataType \in {"CHARACTER", "CHAR"} /\ columnDef.Length = 0
        THEN R("length")
        ELSE IF columnDef.DataType \in {"NUMERIC", "DECIMAL", "DEC", "FLOAT", "DOUBLE",
                                        "REAL"}
                /\ (columnDef.Precision = 0 \/ columnDef.Scale = 0)
        THEN R("precision")
        ELSE [err |-> "",
              tbl |-> [ci.tbl EXCEPT !.TableSchema = schema],
              dir |-> [ci.dir EXCEPT !.schma = <<"gob", schema>>]]

\* variant of Alter that replaces the definition of an existing column
Alter_ReplacesExisting(tbl, dir, columnName, columnDef) ==
    IF columnDef = NilColumnDefinition
    THEN {LET i == AlterDropIndexes(tbl, dir, columnName, idxOrder, NoIndex)
              tbl2 == [i.tbl EXCEPT !.TableSchema = MapDelete(@, columnName)]
              r == AlterDropRows(tbl2, i.dir, NewIterator, columnName, i.existing)
          IN  IF i.panic \/ i.err # ""
              THEN [err |-> i.err, panic |-> i.panic, tbl |-> i.tbl, dir |-> i.dir]
              ELSE [err |-> r.err, panic |-> FALSE, tbl |-> tbl2, dir |-> r.dir]
          : idxOrder \in Perms(DOMAIN tbl.Indexes)}
    ELSE IF columnName \in DOMAIN tbl.TableSchema
    THEN {[err |-> "", panic |-> FALSE,
           tbl |-> [tbl EXCEPT !.TableSchema = MapSet(@, columnName, columnDef)], dir |-> dir]}
    ELSE LET a == AlterAddColumn(tbl, dir, columnName, columnDef)
         IN  IF a.err # "" THEN {[err |-> a.err, panic |-> FALSE, tbl |-> a.tbl, dir |-> a.dir]}
             ELSE {[err |-> IF e = "panic" THEN "" ELSE e, panic |-> e = "panic",
                    tbl |-> a.tbl, dir |-> a.dir]
                   : e \in AlterAddRows(a.tbl, a.dir, NewIterator, columnName, columnDef)}

Alter(tbl, dir, columnName, columnDef) ==
    IF columnDef = NilColumnDefinition
    THEN {LET i == AlterDropIndexes(tbl, dir, columnName, idxOrder, NoIndex)
              tbl2 == [i.tbl EXCEPT !.TableSchema = MapDelete(@, columnName)]
              r == AlterDropRows(tbl2, i.dir, NewIterator, columnName, i.existing)
          IN  IF i.panic \/ i.err # ""
              THEN [err |-> i.err, panic |-> i.panic, tbl |-> i.tbl, dir |-> i.dir]
              ELSE [err |-> r.err, panic |-> FALSE, tbl |-> tbl2, dir |-> r.dir]
          : idxOrder \in Perms(DOMAIN tbl.Indexes)}
    ELSE IF columnName \in DOMAIN tbl.TableSchema
    THEN {[err |-> "onlydroporadd", panic |-> FALSE, tbl |-> tbl, dir |-> dir]}
    ELSE LET a == AlterAddColumn(tbl, dir, columnName, columnDef)
         IN  IF a.err # "" THEN {[err |-> a.err, panic |-> FALSE, tbl |-> a.tbl, dir |-> a.dir]}
             ELSE {[err |-> IF e = "panic" THEN "" ELSE e, panic |-> e = "panic",
                    tbl |-> a.tbl, dir |-> a.dir]
                   : e \in AlterAddRows(a.tbl, a.dir, NewIterator, columnName, columnDef)}

(***************************************************************************)
(* The state: the tables of the database in memory (db.Tables), the table  *)
(* directories on disk, whether the process has panicked, what the last    *)
(* call was given and returned, the number of calls made so far, the users *)
(* of the catalog (cat.Users), where each thread that runs Table.insert is  *)
(* in it, and the users file (whether cat.UsersFile is open, and the bytes *)
(* on disk).  lastSet is history: for every user that exists, the password *)
(* most recently set for it by CreateNewUser or AlterUserPassword.         *)
(***************************************************************************)
VARIABLES Tables, disk, crashed, ret, calls, Users, threads, usersFile, lastSet,
          Procedures, proceduresFile, asql, Databases

vars == <<Tables, disk, crashed, ret, calls, Users, threads, usersFile, lastSet,
          Procedures, proceduresFile, asql, Databases>>

\* the mutexes of a Database as CreateDatabase builds it: its literal sets
\* ProceduresFileLock and no TablesLock (TRUE: a mutex, FALSE: nil)
CreateDatabase(name) == [Name |-> name, TablesLock |-> FALSE, ProceduresFileLock |-> TRUE]

\* and as Open rebuilds it from its directory
OpenDatabase(name) == [Name |-> name, TablesLock |-> TRUE, ProceduresFileLock |-> TRUE]

\* Open reads the procedures file it has opened with os.Open, read-only
OpenProceduresFile(file) == [file EXCEPT !.writable = FALSE]

DecodeProcedures(file) == file.bytes[2]

\* the prompt of the command line client, rune by rune
PROMPT == <<"a", "r", "i", "a", "s", "q", "l", ">">>

\* the client as New returns it: no history, the prompt in the buffer
NewASQL == [history |-> <<>>, historyIndex |-> 0, buffer |-> PROMPT]

\* gob encoding of db.Procedures, written from the start of the file
EncodeProceduresToFile(procedures) == <<"gob", procedures>>

\* the procedures file as CreateDatabase leaves it: created by os.Create, so
\* writable, and holding the encoding of the empty map
NewProceduresFile == [writable |-> TRUE, bytes |-> EncodeProceduresToFile(<<>>)]

(***************************************************************************)
(* The inputs.                                                             *)
(***************************************************************************)
ColumnDefinition(dataType, notNull, sequence, unique, length) ==
    [DataType |-> dataType, NotNull |-> notNull, Sequence |-> sequence,
     Unique |-> unique, Length |-> length, Scale |-> 0, Precision |-> 0,
     References |-> NoReference]

\* CreateTable("t", {id: INT NOT NULL UNIQUE SEQUENCE, name: CHAR(1)})
SchemaIdName ==
    [c \in {"id", "name"} |->
        IF c = "id" THEN ColumnDefinition("INT", TRUE, TRUE, TRUE, 0)
        ELSE ColumnDefinition("CHAR", FALSE, FALSE, FALSE, 1)]

\* CreateTable("t", {id: INT NOT NULL UNIQUE SEQUENCE, u: INT NOT NULL UNIQUE})
SchemaIdU ==
    [c \in {"id", "u"} |->
        IF c = "id" THEN ColumnDefinition("INT", TRUE, TRUE, TRUE, 0)
        ELSE ColumnDefinition("INT", TRUE, FALSE, TRUE, 0)]

Schemas == {SchemaIdName, SchemaIdU}

KeyMaterial == <<"p", "w">>

ValuePool(colDef) ==
    IF colDef.DataType \in {"INT", "INTEGER", "SMALLINT"}
    THEN {GoInt(n) : n \in 1..MaxVal}
    ELSE {GoString(<<"a">>), GoString(<<"a", "b">>), GoNil}

\* the rows a caller can pass for a schema: any subset of the columns, each
\* with a value of the pool of its type
RowInputs(schema) ==
    UNION {{row \in [S -> UNION {ValuePool(schema[c]) : c \in S}] :
              \A c \in S : row[c] \in ValuePool(schema[c])}
           : S \in SUBSET DOMAIN schema}

T == "t"

ThreadIds == 1..MaxThreads

IdleThread == [pc |-> "idle", row |-> <<>>, todo |-> <<>>, rowId |-> -1, err |-> ""]

IdleThreads == [i \in ThreadIds |-> IdleThread]

UserNames == {"admin", "bob"}

Passwords == {"admin", "pw"}

ActionPool == {PRIV_ALL, "SELECT"}

ActionLists(least) == UNION {[1..n -> ActionPool] : n \in least..MaxActs}

PrivilegeInputs ==
    {NewPrivilege(d, t, as) : d \in {DbName, "*"}, t \in {T, "*"}, as \in ActionLists(1)}

IndexNames == {"i1"}

SetClauses(schema) ==
    UNION {{[ColumnName |-> c, Value |-> v] : v \in ValuePool(schema[c])} : c \in DOMAIN schema}

LiveRowIds(dat) == {k \in 0..(PagerCount(dat) - 1) : k \notin PagerGetDeletedPages(dat)}

\* the live rows of the table as GetRow returns them
ReadableRowIds(tbl, dat) == {k \in LiveRowIds(dat) : ~GetRow(tbl, dat, k).err}

InitTable ==
    /\ Procedures = <<>>
    /\ proceduresFile = NewProceduresFile
    /\ asql = NewASQL
    /\ Databases = [d \in {DbName} |-> CreateDatabase(d)]
    /\ \E schema \in Schemas, encrypt \in BOOLEAN, compress \in BOOLEAN :
         \E r \in CreateTable(<<>>, <<>>, T, schema, encrypt, compress, KeyMaterial) :
            /\ r.err = ""
            /\ Tables = r.db
            /\ disk = r.disk
    /\ crashed = FALSE
    /\ calls = 0
    /\ Users = DefaultUsers
    /\ usersFile = DefaultUsersFile
    /\ lastSet = [u \in {"admin"} |-> "admin"]
    /\ threads = IdleThreads
    /\ ret = [op |-> "init"]

(***************************************************************************)
(* The calls on the table.                                                 *)
(***************************************************************************)
SeqWithinBound(dir) == dir.seq = <<>> \/ Atoi(dir.seq).n < MaxSeq

DoInsert(t) ==
    /\ ~crashed
    /\ calls < MaxCalls
    /\ calls' = calls + 1
    /\ t \in DOMAIN disk /\ Tables[t].Rows
    /\ PagerCount(disk[t].dat) < MaxRows
    /\ SeqWithinBound(disk[t])
    /\ \E row \in RowInputs(Tables[t].TableSchema) :
         \E r \in Insert(Tables, Tables[t], disk[t], <<row>>) :
            /\ disk' = [disk EXCEPT ![t] = r.dir]
            /\ crashed' = r.panic
            /\ ret' = [op |-> "Insert", t |-> t, arg |-> <<row>>, err |-> r.err,
                       panic |-> r.panic, rowIds |-> r.rowIds, rows |-> r.rows]
    /\ UNCHANGED <<Tables, Users, usersFile, lastSet, threads, Procedures,
                   proceduresFile, asql, Databases>>

\* the rows of a batch leave the sequence column to the table
BatchRows(schema) == {row \in RowInputs(schema) : \A c \in DOMAIN row : ~schema[c].Sequence}

\* Table.Insert with several rows
DoInsertRows(t) ==
    /\ ~crashed
    /\ calls < MaxCalls
    /\ calls' = calls + 1
    /\ t \in DOMAIN disk /\ Tables[t].Rows
    /\ SeqWithinBound(disk[t])
    /\ \E n \in 1..MaxBatch :
         /\ PagerCount(disk[t].dat) + n <= MaxRows
         /\ \E rows \in [1..n -> BatchRows(Tables[t].TableSchema)] :
              \E r \in Insert(Tables, Tables[t], disk[t], rows) :
                 /\ disk' = [disk EXCEPT ![t] = r.dir]
                 /\ crashed' = r.panic
                 /\ ret' = [op |-> "Insert", t |-> t, arg |-> rows, err |-> r.err,
                            panic |-> r.panic, rowIds |-> r.rowIds, rows |-> r.rows,
                            before |-> disk[t]]
    /\ UNCHANGED <<Tables, Users, usersFile, lastSet, threads, Procedures,
                   proceduresFile, asql, Databases>>

\* the caller passes the row it read with GetRow
DoUpdateRow(t) ==
    /\ ~crashed
    /\ calls < MaxCalls
    /\ calls' = calls + 1
    /\ t \in DOMAIN disk /\ Tables[t].Rows
    /\ \E rowId \in ReadableRowIds(Tables[t], disk[t].dat) :
         \E sets \in UNION {[1..n -> SetClauses(Tables[t].TableSchema)] : n \in 1..MaxSets} :
            LET r == UpdateRow(Tables[t], disk[t], rowId,
                               GetRow(Tables[t], disk[t].dat, rowId).row, sets)
            IN  /\ disk' = [disk EXCEPT ![t] = r.dir]
                /\ ret' = [op |-> "UpdateRow", t |-> t, rowId |-> rowId, sets |-> sets,
                           err |-> r.err,
                           row |-> GetRow(Tables[t], disk[t].dat, rowId).row]
    /\ UNCHANGED <<Tables, crashed, Users, usersFile, lastSet, threads, Procedures,
                   proceduresFile, asql, Databases>>

DoDeleteRow(t) ==
    /\ ~crashed
    /\ calls < MaxCalls
    /\ calls' = calls + 1
    /\ t \in DOMAIN disk /\ Tables[t].Rows
    /\ \E rowId \in LiveRowIds(disk[t].dat) :
         LET r == DeleteRow(Tables[t], disk[t], rowId)
         IN  /\ disk' = [disk EXCEPT ![t] = r.dir]
             /\ ret' = [op |-> "DeleteRow", t |-> t, rowId |-> rowId, err |-> r.err]
    /\ UNCHANGED <<Tables, crashed, Users, usersFile, lastSet, threads, Procedures,
                   proceduresFile, asql, Databases>>

DoCreateIndex(t) ==
    /\ ~crashed
    /\ calls < MaxCalls
    /\ calls' = calls + 1
    /\ t \in DOMAIN disk /\ Tables[t].Rows
    /\ \E name \in IndexNames, unique \in BOOLEAN :
         \E columns \in {<<c>> : c \in DOMAIN Tables[t].TableSchema} :
            LET r == CreateIndex(Tables[t], disk[t], name, columns, unique)
            IN  /\ Tables' = [Tables EXCEPT ![t] = r.tbl]
                /\ disk' = [disk EXCEPT ![t] = r.dir]
                /\ ret' = [op |-> "CreateIndex", t |-> t, name |-> name,
                           columns |-> columns, unique |-> unique, err |-> r.err]
    /\ UNCHANGED <<crashed, Users, usersFile, lastSet, threads, Procedures,
                   proceduresFile, asql, Databases>>

\* a scan of the table with a new iterator
DoIterate(t) ==
    /\ ~crashed
    /\ calls < MaxCalls
    /\ calls' = calls + 1
    /\ t \in DOMAIN disk /\ Tables[t].Rows
    /\ LET r == Iterate(NewIterator, disk[t].dat, <<>>)
       IN  ret' = [op |-> "Iterate", t |-> t, rows |-> r.rows, err |-> r.err]
    /\ UNCHANGED <<Tables, disk, crashed, Users, usersFile, lastSet, threads,
                   Procedures, proceduresFile, asql, Databases>>

NextInsert == \E t \in DOMAIN Tables : DoInsert(t)

SpecInsert == InitTable /\ [][NextInsert]_vars

NextBatch == \E t \in DOMAIN Tables : DoInsertRows(t)

SpecBatch == InitTable /\ [][NextBatch]_vars

NextIter ==
    \E t \in DOMAIN Tables :
        \/ DoInsert(t)
        \/ DoDeleteRow(t)
        \/ DoIterate(t)

SpecIter == InitTable /\ [][NextIter]_vars

(***************************************************************************)
(* Foreign keys: a table p with a unique index on id and none on name, and *)
(* a table t with one column that references a column of p or of a table   *)
(* that does not exist.  Rows are inserted in both.                        *)
(***************************************************************************)
P == "p"

Reference(tableName, columnName) == [TableName |-> tableName, ColumnName |-> columnName]

\* t(c INT NOT NULL REFERENCES tableName(columnName))
SchemaReferencing(c, tableName, columnName) ==
    [x \in {c} |-> [ColumnDefinition("INT", TRUE, FALSE, FALSE, 0)
                      EXCEPT !.References = Reference(tableName, columnName)]]

RefSchemas ==
    {SchemaReferencing(c, tn, cn) : c \in {"id", "pid", "name"}, tn \in {P, "q"},
                                    cn \in {"id", "name"}}

InitRef ==
    /\ Procedures = <<>>
    /\ proceduresFile = NewProceduresFile
    /\ asql = NewASQL
    /\ Databases = [d \in {DbName} |-> CreateDatabase(d)]
    /\ \E schema \in RefSchemas :
         \E p \in CreateTable(<<>>, <<>>, P, SchemaIdName, FALSE, FALSE, KeyMaterial) :
            \E r \in CreateTable(p.db, p.disk, T, schema, FALSE, FALSE, KeyMaterial) :
               /\ p.err = ""
               /\ r.err = ""
               /\ Tables = r.db
               /\ disk = r.disk
    /\ crashed = FALSE
    /\ calls = 0
    /\ Users = DefaultUsers
    /\ usersFile = DefaultUsersFile
    /\ lastSet = [u \in {"admin"} |-> "admin"]
    /\ threads = IdleThreads
    /\ ret = [op |-> "init"]

NextRef == \E t \in DOMAIN Tables : DoInsert(t)

SpecRef == InitRef /\ [][NextRef]_vars

Next ==
    \E t \in DOMAIN Tables :
        \/ DoInsert(t)
        \/ DoUpdateRow(t)
        \/ DoDeleteRow(t)
        \/ DoCreateIndex(t)

Spec == InitTable /\ [][Next]_vars

(***************************************************************************)
(* The catalog: tables are created in an empty database, rows are          *)
(* inserted, and the catalog is closed and opened again on its directory.  *)
(***************************************************************************)
\* a name of MAX_TABLE_NAME_SIZE + 1 characters
LongName == "xxxxxxxxxxxxxxxxxxxxxxxxxxxxxxxxxxxxxxxxxxxxxxxxxxxxxxxxxxxxxxxxx"

TableNames == {T, ProceduresFileName, LongName}

SchemaTwoSequences ==
    [id |-> ColumnDefinition("INT", TRUE, TRUE, TRUE, 0),
     n |-> ColumnDefinition("INT", TRUE, TRUE, TRUE, 0)]

SchemaBadType == [id |-> ColumnDefinition("JSON", FALSE, FALSE, FALSE, 0)]

SchemaCharNoLength ==
    [id |-> ColumnDefinition("INT", TRUE, TRUE, TRUE, 0),
     name |-> ColumnDefinition("CHAR", FALSE, FALSE, FALSE, 0)]

CatSchemas == Schemas \cup {SchemaTwoSequences, SchemaBadType, SchemaCharNoLength}

InitCat ==
    /\ Procedures = <<>>
    /\ proceduresFile = NewProceduresFile
    /\ asql = NewASQL
    /\ Databases = [d \in {DbName} |-> CreateDatabase(d)]
    /\ Tables = <<>>
    /\ disk = <<>>
    /\ crashed = FALSE
    /\ calls = 0
    /\ Users = DefaultUsers
    /\ usersFile = DefaultUsersFile
    /\ lastSet = [u \in {"admin"} |-> "admin"]
    /\ threads = IdleThreads
    /\ ret = [op |-> "init"]

DoCreateTable ==
    /\ ~crashed
    /\ calls < MaxCalls
    /\ calls' = calls + 1
    /\ \E name \in TableNames, tblSchema \in CatSchemas,
          encrypt \in BOOLEAN, compress \in BOOLEAN :
         \E r \in CreateTable(Tables, disk, name, tblSchema, encrypt, compress, KeyMaterial) :
            /\ Tables' = r.db
            /\ disk' = r.disk
            /\ ret' = [op |-> "CreateTable", name |-> name, schema |-> tblSchema,
                       err |-> r.err, existed |-> name \in DOMAIN Tables]
    /\ UNCHANGED <<crashed, Users, usersFile, lastSet, threads, Procedures,
                   proceduresFile, asql, Databases>>

\* Catalog.Close followed by Catalog.Open on the same directory
DoReopen ==
    /\ ~crashed
    /\ calls < MaxCalls
    /\ calls' = calls + 1
    /\ Tables' = OpenTables(disk)
    /\ Databases' = [d \in DOMAIN Databases |-> OpenDatabase(d)]
    /\ proceduresFile' = OpenProceduresFile(proceduresFile)
    /\ Procedures' = DecodeProcedures(proceduresFile)
    /\ ret' = [op |-> "Reopen", before |-> Tables]
    /\ UNCHANGED <<disk, crashed, Users, usersFile, lastSet, threads, asql>>

NextCat ==
    \/ DoCreateTable
    \/ DoReopen
    \/ \E t \in DOMAIN Tables : DoInsert(t)

SpecCat == InitCat /\ [][NextCat]_vars

\* Database.GetTables: db.TablesLock.Lock() on a nil mutex panics; the names
\* come in the order of the range over the map
GetTables(db, tables) ==
    IF ~db.TablesLock THEN {[panic |-> TRUE, tables |-> <<>>]}
    ELSE {[panic |-> FALSE, tables |-> order] : order \in Perms(DOMAIN tables)}

DoGetTables ==
    /\ ~crashed
    /\ calls < MaxCalls
    /\ calls' = calls + 1
    /\ \E d \in DOMAIN Databases :
         \E r \in GetTables(Databases[d], Tables) :
             /\ crashed' = r.panic
             /\ ret' = [op |-> "GetTables", panic |-> r.panic, tables |-> r.tables]
    /\ UNCHANGED <<Tables, disk, Users, usersFile, lastSet, threads, Procedures,
                   proceduresFile, asql, Databases>>

\* the catalog with the operations that lock the mutexes of its databases
\* and tables
NextMutex ==
    \/ DoCreateTable
    \/ DoReopen
    \/ DoGetTables
    \/ \E t \in DOMAIN Tables : DoInsert(t)

SpecMutex == InitCat /\ [][NextMutex]_vars

(***************************************************************************)
(* Schema evolution: tables are created, columns are added and dropped,    *)
(* indexes are created and dropped, and rows are inserted.                 *)
(***************************************************************************)
AlterColumns == {"id", "n"}

AlterDefinitions ==
    {NilColumnDefinition,
     ColumnDefinition("INT", TRUE, TRUE, TRUE, 0),
     ColumnDefinition("INT", FALSE, TRUE, FALSE, 0),
     ColumnDefinition("INT", FALSE, FALSE, TRUE, 0),
     ColumnDefinition("CHAR", FALSE, FALSE, FALSE, 1)}

DoAlter(t) ==
    /\ ~crashed
    /\ calls < MaxCalls
    /\ calls' = calls + 1
    /\ t \in DOMAIN disk /\ Tables[t].Rows
    /\ \E columnName \in AlterColumns, columnDef \in AlterDefinitions :
         \E r \in Alter(Tables[t], disk[t], columnName, columnDef) :
            /\ Tables' = [Tables EXCEPT ![t] = r.tbl]
            /\ disk' = [disk EXCEPT ![t] = r.dir]
            /\ crashed' = r.panic
            /\ ret' = [op |-> "Alter", t |-> t, columnName |-> columnName,
                       columnDef |-> columnDef, err |-> r.err, panic |-> r.panic,
                       tbl |-> Tables[t], before |-> disk[t]]
    /\ UNCHANGED <<Users, usersFile, lastSet, threads, Procedures, proceduresFile, asql,
                   Databases>>

DoDropIndex(t) ==
    /\ ~crashed
    /\ calls < MaxCalls
    /\ calls' = calls + 1
    /\ t \in DOMAIN disk /\ Tables[t].Rows
    /\ \E name \in IndexNames \cup {"unique_id"} :
         LET r == DropIndex(Tables[t], disk[t], name)
         IN  /\ Tables' = [Tables EXCEPT ![t] = r.tbl]
             /\ disk' = [disk EXCEPT ![t] = r.dir]
             /\ ret' = [op |-> "DropIndex", t |-> t, name |-> name, err |-> r.err]
    /\ UNCHANGED <<crashed, Users, usersFile, lastSet, threads, Procedures,
                   proceduresFile, asql, Databases>>

NextAlter ==
    \/ DoCreateTable
    \/ \E t \in DOMAIN Tables :
          \/ DoAlter(t)
          \/ DoCreateIndex(t)
          \/ DoDropIndex(t)
          \/ DoInsert(t)

SpecAlter == InitCat /\ [][NextAlter]_vars

\* a table that Insert has filled with up to MaxRows rows; its rows are
\* deleted and its columns dropped and added
InitRows ==
    /\ Procedures = <<>>
    /\ proceduresFile = NewProceduresFile
    /\ asql = NewASQL
    /\ Databases = [d \in {DbName} |-> CreateDatabase(d)]
    /\ \E schema \in Schemas, encrypt \in BOOLEAN, compress \in BOOLEAN :
         \E r \in CreateTable(<<>>, <<>>, T, schema, encrypt, compress, KeyMaterial) :
            /\ r.err = ""
            /\ \E n \in 0..MaxRows : \E rows \in [1..n -> BatchRows(schema)] :
                  \E i \in Insert(r.db, r.db[T], r.disk[T], rows) :
                     /\ i.err = ""
                     /\ ~i.panic
                     /\ Tables = r.db
                     /\ disk = [r.disk EXCEPT ![T] = i.dir]
    /\ crashed = FALSE
    /\ calls = 0
    /\ Users = DefaultUsers
    /\ usersFile = DefaultUsersFile
    /\ lastSet = [u \in {"admin"} |-> "admin"]
    /\ threads = IdleThreads
    /\ ret = [op |-> "init"]

NextDrop ==
    \E t \in DOMAIN Tables :
        \/ DoDeleteRow(t)
        \/ DoAlter(t)

SpecDrop == InitRows /\ [][NextDrop]_vars

\* a table that earlier calls have created and filled, before the last call
\* of the run, which updates one of its rows
InitUpdate ==
    /\ Procedures = <<>>
    /\ proceduresFile = NewProceduresFile
    /\ asql = NewASQL
    /\ Databases = [d \in {DbName} |-> CreateDatabase(d)]
    /\ \E schema \in Schemas, encrypt \in BOOLEAN, compress \in BOOLEAN :
         \E r \in CreateTable(<<>>, <<>>, T, schema, encrypt, compress, KeyMaterial) :
            /\ r.err = ""
            /\ \E n \in 0..MaxRows : \E rows \in [1..n -> BatchRows(schema)] :
                  \E i \in Insert(r.db, r.db[T], r.disk[T], rows) :
                     /\ i.err = ""
                     /\ ~i.panic
                     /\ Tables = r.db
                     /\ disk = [r.disk EXCEPT ![T] = i.dir]
    /\ crashed = FALSE
    /\ calls = MaxCalls - 1
    /\ Users = DefaultUsers
    /\ usersFile = DefaultUsersFile
    /\ lastSet = [u \in {"admin"} |-> "admin"]
    /\ threads = IdleThreads
    /\ ret = [op |-> "init"]

NextUpdate == \E t \in DOMAIN Tables : DoUpdateRow(t)

SpecUpdate == InitUpdate /\ [][NextUpdate]_vars

(***************************************************************************)
(* Threads that scan the table with the loop of Alter,                     *)
(*   for ri.Valid() { row, err := ri.Next(); if err != nil { continue } }  *)
(* on a pager whose read of a page can fail.  ri is the iterator, prev the *)
(* cursor before the last Next, steps the number of iterations so far.     *)
(* Rows are deleted while no scan is running.                              *)
(***************************************************************************)
IdleScan == [pc |-> "idle", ri |-> NewIterator, prev |-> -1, steps |-> 0]

InitScan ==
    /\ Procedures = <<>>
    /\ proceduresFile = NewProceduresFile
    /\ asql = NewASQL
    /\ Databases = [d \in {DbName} |-> CreateDatabase(d)]
    /\ \E schema \in Schemas, encrypt \in BOOLEAN, compress \in BOOLEAN :
         \E r \in CreateTable(<<>>, <<>>, T, schema, encrypt, compress, KeyMaterial) :
            /\ r.err = ""
            /\ \E n \in 0..MaxRows : \E rows \in [1..n -> BatchRows(schema)] :
                  \E i \in Insert(r.db, r.db[T], r.disk[T], rows) :
                     /\ i.err = ""
                     /\ ~i.panic
                     /\ Tables = r.db
                     /\ disk = [r.disk EXCEPT ![T] = i.dir]
    /\ crashed = FALSE
    /\ calls = 0
    /\ Users = DefaultUsers
    /\ usersFile = DefaultUsersFile
    /\ lastSet = [u \in {"admin"} |-> "admin"]
    /\ threads = [i \in ThreadIds |-> IdleScan]
    /\ ret = [op |-> "init"]

\* ri := tbl.NewIterator()
ScanStart(i) ==
    /\ threads[i].pc = "idle"
    /\ calls < MaxCalls
    /\ calls' = calls + 1
    /\ threads' = [threads EXCEPT ![i] = [IdleScan EXCEPT !.pc = "scan"]]
    /\ UNCHANGED <<Tables, disk, crashed, ret, Users, usersFile, lastSet,
                   Procedures, proceduresFile, asql, Databases>>

\* one iteration: Valid() is true, Next() is called, an error continues
ScanNext(i) ==
    /\ threads[i].pc = "scan"
    /\ IteratorValid(threads[i].ri, disk[T].dat)
    /\ threads[i].steps <= PagerCount(disk[T].dat)
    /\ \E n \in {IteratorNext(threads[i].ri, disk[T].dat),
                  IteratorNextFailing(threads[i].ri, disk[T].dat)} :
         threads' = [threads EXCEPT ![i].ri = n.ri,
                                    ![i].prev = threads[i].ri.row,
                                    ![i].steps = @ + 1]
    /\ UNCHANGED <<Tables, disk, crashed, ret, calls, Users, usersFile, lastSet,
                   Procedures, proceduresFile, asql, Databases>>

\* Valid() is false: the loop ends
ScanEnd(i) ==
    /\ threads[i].pc = "scan"
    /\ ~IteratorValid(threads[i].ri, disk[T].dat)
    /\ threads' = [threads EXCEPT ![i] = IdleScan]
    /\ ret' = [op |-> "scan", steps |-> threads[i].steps, thread |-> i]
    /\ UNCHANGED <<Tables, disk, crashed, calls, Users, usersFile, lastSet,
                   Procedures, proceduresFile, asql, Databases>>

ScanDeleteRow ==
    /\ \A i \in ThreadIds : threads[i].pc = "idle"
    /\ DoDeleteRow(T)

NextScan ==
    \/ \E i \in ThreadIds : \/ ScanStart(i)
                            \/ ScanNext(i)
                            \/ ScanEnd(i)
    \/ ScanDeleteRow

SpecScan == InitScan /\ [][NextScan]_vars

(***************************************************************************)
(* Users are created, privileges are granted and HasPrivilege is asked.    *)
(***************************************************************************)
DoCreateNewUser ==
    /\ ~crashed
    /\ usersFile.open
    /\ calls < MaxCalls
    /\ calls' = calls + 1
    /\ \E username \in UserNames, password \in Passwords :
         LET r == CreateNewUser(Users, username, password)
         IN  /\ Users' = r.users
             /\ usersFile' = IF r.err = ""
                             THEN [usersFile EXCEPT !.bytes = EncodeUsersToFile(r.users)]
                             ELSE usersFile
             /\ lastSet' = IF r.err = "" THEN MapSet(lastSet, username, password) ELSE lastSet
             /\ ret' = [op |-> "CreateNewUser", username |-> username, err |-> r.err]
    /\ UNCHANGED <<Tables, disk, crashed, threads, Procedures, proceduresFile, asql, Databases>>

DoGrantPrivilegeToUser ==
    /\ ~crashed
    /\ usersFile.open
    /\ calls < MaxCalls
    /\ calls' = calls + 1
    /\ \E username \in UserNames, priv \in PrivilegeInputs :
         LET r == GrantPrivilegeToUser(Users, username, priv)
         IN  /\ Users' = r.users
             /\ usersFile' = IF r.err = ""
                             THEN [usersFile EXCEPT !.bytes = EncodeUsersToFile(r.users)]
                             ELSE usersFile
             /\ ret' = [op |-> "GrantPrivilegeToUser", username |-> username,
                        priv |-> priv, err |-> r.err]
    /\ UNCHANGED <<Tables, disk, crashed, threads, lastSet, Procedures, proceduresFile,
                   asql, Databases>>

\* a panic leaves the users as the loop had them and the file unwritten
DoRevokePrivilegeFromUser ==
    /\ ~crashed
    /\ usersFile.open
    /\ calls < MaxCalls
    /\ calls' = calls + 1
    /\ \E username \in UserNames, priv \in PrivilegeInputs :
         LET r == RevokePrivilegeFromUser(Users, username, priv)
         IN  /\ Users' = r.users
             /\ crashed' = r.panic
             /\ usersFile' = IF r.err = "" /\ ~r.panic
                             THEN [usersFile EXCEPT !.bytes = EncodeUsersToFile(r.users)]
                             ELSE usersFile
             /\ ret' = [op |-> "RevokePrivilegeFromUser", username |-> username,
                        priv |-> priv, err |-> r.err, panic |-> r.panic,
                        before |-> Users]
    /\ UNCHANGED <<Tables, disk, threads, lastSet, Procedures, proceduresFile, asql, Databases>>

DoHasPrivilege ==
    /\ ~crashed
    /\ calls < MaxCalls
    /\ calls' = calls + 1
    /\ \E username \in DOMAIN Users, db \in {DbName, "e"}, tbl \in {T},
          actions \in ActionLists(0) :
         ret' = [op |-> "HasPrivilege", username |-> username, db |-> db, tbl |-> tbl,
                 actions |-> actions,
                 result |-> HasPrivilege(Users[username], db, tbl, actions)]
    /\ UNCHANGED <<Tables, disk, crashed, Users, usersFile, lastSet, threads,
                   Procedures, proceduresFile, asql, Databases>>

NextPriv ==
    \/ DoCreateNewUser
    \/ DoGrantPrivilegeToUser
    \/ DoRevokePrivilegeFromUser
    \/ DoHasPrivilege

SpecPriv == InitCat /\ [][NextPriv]_vars

(***************************************************************************)
(* Users are created, renamed, given passwords, dropped and authenticated, *)
(* and a catalog is opened on the directory again, starting from a new     *)
(* directory whose catalog has not been opened yet.                        *)
(***************************************************************************)
InitUsers ==
    /\ Procedures = <<>>
    /\ proceduresFile = NewProceduresFile
    /\ asql = NewASQL
    /\ Databases = [d \in {DbName} |-> CreateDatabase(d)]
    /\ Tables = <<>>
    /\ disk = <<>>
    /\ crashed = FALSE
    /\ calls = 0
    /\ Users = <<>>
    /\ usersFile = [open |-> FALSE, bytes |-> EmptyFile]
    /\ lastSet = <<>>
    /\ threads = IdleThreads
    /\ ret = [op |-> "New"]

\* Open of a new Catalog on the directory (the earlier catalog, if any, is
\* gone with its process); a seeded admin has had its password set by the
\* CreateNewUser of the seeding
DoOpen ==
    /\ ~crashed
    /\ calls < MaxCalls
    /\ calls' = calls + 1
    /\ LET r == OpenUsers(usersFile.bytes)
       IN  /\ Users' = r.users
           /\ usersFile' = [open |-> TRUE, bytes |-> r.bytes]
           /\ lastSet' = IF usersFile.bytes = EmptyFile /\ r.err = ""
                         THEN MapSet(lastSet, "admin", "admin")
                         ELSE lastSet
           /\ ret' = [op |-> "Open", err |-> r.err, before |-> usersFile.bytes,
                      users |-> Users]
    /\ Databases' = [d \in DOMAIN Databases |-> OpenDatabase(d)]
    /\ proceduresFile' = OpenProceduresFile(proceduresFile)
    /\ Procedures' = DecodeProcedures(proceduresFile)
    /\ UNCHANGED <<Tables, disk, crashed, threads, asql>>

DoAlterUserPassword ==
    /\ ~crashed
    /\ usersFile.open
    /\ calls < MaxCalls
    /\ calls' = calls + 1
    /\ \E username \in UserNames, password \in Passwords :
         LET r == AlterUserPassword(Users, username, password)
         IN  /\ Users' = r.users
             /\ usersFile' = IF r.err = ""
                             THEN [usersFile EXCEPT !.bytes = EncodeUsersToFile(r.users)]
                             ELSE usersFile
             /\ lastSet' = IF r.err = "" THEN MapSet(lastSet, username, password) ELSE lastSet
             /\ ret' = [op |-> "AlterUserPassword", username |-> username, err |-> r.err]
    /\ UNCHANGED <<Tables, disk, crashed, threads, Procedures, proceduresFile, asql, Databases>>

DoAlterUserUsername ==
    /\ ~crashed
    /\ usersFile.open
    /\ calls < MaxCalls
    /\ calls' = calls + 1
    /\ \E oldUsername \in UserNames, newUsername \in UserNames :
         LET r == AlterUserUsername(Users, oldUsername, newUsername)
         IN  /\ Users' = r.users
             /\ usersFile' = IF r.err = ""
                             THEN [usersFile EXCEPT !.bytes = EncodeUsersToFile(r.users)]
                             ELSE usersFile
             /\ lastSet' = IF r.err = ""
                           THEN MapDelete(MapSet(lastSet, newUsername, lastSet[oldUsername]),
                                          oldUsername)
                           ELSE lastSet
             /\ ret' = [op |-> "AlterUserUsername", username |-> oldUsername, err |-> r.err]
    /\ UNCHANGED <<Tables, disk, crashed, threads, Procedures, proceduresFile, asql, Databases>>

DoDropUser ==
    /\ ~crashed
    /\ usersFile.open
    /\ calls < MaxCalls
    /\ calls' = calls + 1
    /\ \E username \in UserNames :
         LET r == DropUser(Users, username)
         IN  /\ Users' = r.users
             /\ usersFile' = IF r.err = ""
                             THEN [usersFile EXCEPT !.bytes = EncodeUsersToFile(r.users)]
                             ELSE usersFile
             /\ lastSet' = IF r.err = "" THEN MapDelete(lastSet, username) ELSE lastSet
             /\ ret' = [op |-> "DropUser", username |-> username, err |-> r.err]
    /\ UNCHANGED <<Tables, disk, crashed, threads, Procedures, proceduresFile, asql, Databases>>

DoAuthenticateUser ==
    /\ ~crashed
    /\ usersFile.open
    /\ calls < MaxCalls
    /\ calls' = calls + 1
    /\ \E username \in UserNames, password \in Passwords :
         LET r == AuthenticateUser(Users, username, password)
         IN  ret' = [op |-> "AuthenticateUser", username |-> username,
                     password |-> password, err |-> r.err, user |-> r.user, ok |-> r.ok]
    /\ UNCHANGED <<Tables, disk, crashed, Users, usersFile, lastSet, threads,
                   Procedures, proceduresFile, asql, Databases>>

NextUsers ==
    \/ DoOpen
    \/ DoCreateNewUser
    \/ DoAlterUserPassword
    \/ DoAlterUserUsername
    \/ DoDropUser
    \/ DoAuthenticateUser

SpecUsers == InitUsers /\ [][NextUsers]_vars

\* privileges are granted and revoked, users are created and renamed
NextGrant ==
    \/ DoCreateNewUser
    \/ DoGrantPrivilegeToUser
    \/ DoRevokePrivilegeFromUser
    \/ DoAlterUserUsername

\* the catalog after a first grant, with two calls of the run left
InitGrant ==
    /\ Procedures = <<>>
    /\ proceduresFile = NewProceduresFile
    /\ asql = NewASQL
    /\ Databases = [d \in {DbName} |-> CreateDatabase(d)]
    /\ Tables = <<>>
    /\ disk = <<>>
    /\ crashed = FALSE
    /\ calls = MaxCalls - 2
    /\ \E username \in UserNames, priv \in PrivilegeInputs :
         LET r == GrantPrivilegeToUser(DefaultUsers, username, priv)
         IN  /\ r.err = ""
             /\ Users = r.users
             /\ usersFile = [open |-> TRUE, bytes |-> EncodeUsersToFile(r.users)]
    /\ lastSet = [u \in {"admin"} |-> "admin"]
    /\ threads = IdleThreads
    /\ ret = [op |-> "init"]

SpecGrant == InitGrant /\ [][NextGrant]_vars

(***************************************************************************)
(* Threads that call Table.insert on the same table, one row each.  A step *)
(* of a thread is one pass of the loop over the schema (IncrementSequence  *)
(* runs under SeqLock), the write of the row, or the index puts.           *)
(***************************************************************************)
ThreadStart(i) ==
    /\ ~crashed
    /\ threads[i].pc = "idle"
    /\ \E row \in RowInputs(Tables[T].TableSchema),
          order \in Perms(DOMAIN Tables[T].TableSchema) :
         threads' = [threads EXCEPT ![i] = [IdleThread EXCEPT
                        !.pc = "schema", !.row = row, !.todo = order]]
    /\ UNCHANGED <<Tables, disk, crashed, ret, calls, Users, usersFile, lastSet,
                   Procedures, proceduresFile, asql, Databases>>

ThreadColumn(i) ==
    /\ ~crashed
    /\ threads[i].pc = "schema"
    /\ SeqWithinBound(disk[T])
    /\ \E o \in insertColumn(Tables, Tables[T], disk[T], threads[i].row,
                             Head(threads[i].todo)) :
         /\ disk' = [disk EXCEPT ![T].seq = o.seq]
         /\ crashed' = (o.k = "panic")
         /\ threads' = [threads EXCEPT ![i] =
               [@ EXCEPT !.row = o.row,
                         !.todo = Tail(@),
                         !.err = o.err,
                         !.pc = IF o.k = "err" THEN "done"
                                ELSE IF Len(threads[i].todo) = 1 THEN "write"
                                ELSE "schema"]]
    /\ UNCHANGED <<Tables, ret, calls, Users, usersFile, lastSet, Procedures,
                   proceduresFile, asql, Databases>>

ThreadWrite(i) ==
    /\ ~crashed
    /\ threads[i].pc = "write"
    /\ LET w == writeRow(Tables[T], disk[T].dat, threads[i].row)
       IN  /\ disk' = [disk EXCEPT ![T].dat = w.dat]
           /\ threads' = [threads EXCEPT ![i] = [@ EXCEPT !.rowId = w.id, !.pc = "index"]]
    /\ UNCHANGED <<Tables, crashed, ret, calls, Users, usersFile, lastSet,
                   Procedures, proceduresFile, asql, Databases>>

ThreadIndex(i) ==
    /\ ~crashed
    /\ threads[i].pc = "index"
    /\ \E colOrder \in Perms(DOMAIN threads[i].row) :
         \E x \in insertIndexes(Tables[T], disk[T].bt, threads[i].row, threads[i].rowId,
                                colOrder) :
            /\ disk' = [disk EXCEPT ![T].bt = x.bt]
            /\ crashed' = x.panic
            /\ threads' = [threads EXCEPT ![i] = [@ EXCEPT !.pc = "done"]]
    /\ UNCHANGED <<Tables, ret, calls, Users, usersFile, lastSet, Procedures,
                   proceduresFile, asql, Databases>>

NextConc ==
    \E i \in ThreadIds :
        \/ ThreadStart(i)
        \/ ThreadColumn(i)
        \/ ThreadWrite(i)
        \/ ThreadIndex(i)

SpecConc == InitTable /\ [][NextConc]_vars

(***************************************************************************)
(* Threads that call Table.IncrementSequence on the same table.  A thread  *)
(* is at the Lock of SeqLock, at the ReadFile, at the write to the file,   *)
(* or at the deferred Unlock; d is what it read, n what the call returns,  *)
(* got the values its completed calls returned.                            *)
(***************************************************************************)
\* variant of the mutex that lets every thread in
SeqLockFree_NeverHeld(ths) == TRUE

\* tbl.SeqLock.Lock() returns when no thread is between Lock and Unlock
SeqLockFree(ths) == \A i \in DOMAIN ths : ths[i].pc \notin {"read", "write", "unlock"}

InitSeq ==
    /\ Procedures = <<>>
    /\ proceduresFile = NewProceduresFile
    /\ asql = NewASQL
    /\ Databases = [d \in {DbName} |-> CreateDatabase(d)]
    /\ \E schema \in Schemas, encrypt \in BOOLEAN, compress \in BOOLEAN :
         \E r \in CreateTable(<<>>, <<>>, T, schema, encrypt, compress, KeyMaterial) :
            /\ r.err = ""
            /\ Tables = r.db
            /\ disk = r.disk
    /\ crashed = FALSE
    /\ calls = 0
    /\ Users = DefaultUsers
    /\ usersFile = DefaultUsersFile
    /\ lastSet = [u \in {"admin"} |-> "admin"]
    /\ threads = [i \in ThreadIds |-> [pc |-> "idle", d |-> <<>>, n |-> 0, got |-> <<>>]]
    /\ ret = [op |-> "init"]

SeqCall(i) ==
    /\ threads[i].pc = "idle"
    /\ calls < MaxCalls
    /\ calls' = calls + 1
    /\ threads' = [threads EXCEPT ![i].pc = "lock"]
    /\ UNCHANGED <<Tables, disk, crashed, ret, Users, usersFile, lastSet,
                   Procedures, proceduresFile, asql, Databases>>

SeqLockStep(i) ==
    /\ threads[i].pc = "lock"
    /\ SeqLockFree(threads)
    /\ threads' = [threads EXCEPT ![i].pc = "read"]
    /\ UNCHANGED <<Tables, disk, crashed, ret, calls, Users, usersFile, lastSet,
                   Procedures, proceduresFile, asql, Databases>>

SeqRead(i) ==
    /\ threads[i].pc = "read"
    /\ threads' = [threads EXCEPT ![i].pc = "write", ![i].d = disk[T].seq]
    /\ UNCHANGED <<Tables, disk, crashed, ret, calls, Users, usersFile, lastSet,
                   Procedures, proceduresFile, asql, Databases>>

SeqWrite(i) ==
    /\ threads[i].pc = "write"
    /\ LET r == IncrementSequence(Tables[T], threads[i].d)
       IN  /\ disk' = [disk EXCEPT ![T].seq = IF r.err = "" THEN r.seq ELSE @]
           /\ threads' = [threads EXCEPT ![i].pc = "unlock", ![i].n = r.n]
    /\ UNCHANGED <<Tables, crashed, ret, calls, Users, usersFile, lastSet,
                   Procedures, proceduresFile, asql, Databases>>

SeqReturn(i) ==
    /\ threads[i].pc = "unlock"
    /\ threads' = [threads EXCEPT ![i].pc = "idle", ![i].got = Append(@, threads[i].n)]
    /\ ret' = [op |-> "IncrementSequence", thread |-> i, n |-> threads[i].n]
    /\ UNCHANGED <<Tables, disk, crashed, calls, Users, usersFile, lastSet,
                   Procedures, proceduresFile, asql, Databases>>

NextSeq ==
    \E i \in ThreadIds :
        \/ SeqCall(i)
        \/ SeqLockStep(i)
        \/ SeqRead(i)
        \/ SeqWrite(i)
        \/ SeqReturn(i)

SpecSeq == InitSeq /\ [][NextSeq]_vars

(***************************************************************************)
(* Threads that call Catalog.CreateNewUser and Catalog.AuthenticateUser,   *)
(* stepping from one mutex operation to the next.  held is the set of      *)
(* mutexes the thread holds; a thread whose pc names a mutex is at its     *)
(* Lock.  CreateNewUser calls EncodeUsersToFile before it returns.         *)
(***************************************************************************)
\* variant of the mutex that lets every thread in
MutexFree_NeverHeld(ths, m) == TRUE

\* m.Lock() returns when no thread holds m
MutexFree(ths, m) == \A i \in DOMAIN ths : m \notin ths[i].held

InitLock ==
    /\ Procedures = <<>>
    /\ proceduresFile = NewProceduresFile
    /\ asql = NewASQL
    /\ Databases = [d \in {DbName} |-> CreateDatabase(d)]
    /\ Tables = <<>>
    /\ disk = <<>>
    /\ crashed = FALSE
    /\ calls = 0
    /\ Users = DefaultUsers
    /\ usersFile = DefaultUsersFile
    /\ lastSet = [u \in {"admin"} |-> "admin"]
    /\ threads = [i \in ThreadIds |->
                    [pc |-> "idle", held |-> {}, op |-> "", username |-> "",
                     password |-> "", err |-> ""]]
    /\ ret = [op |-> "init"]

LockCall(i) ==
    /\ threads[i].pc = "idle"
    /\ calls < MaxCalls
    /\ calls' = calls + 1
    /\ \E op \in {"CreateNewUser", "AuthenticateUser"}, username \in UserNames,
          password \in Passwords :
         threads' = [threads EXCEPT ![i] = [pc |-> "UsersLock", held |-> {}, op |-> op,
                                            username |-> username, password |-> password,
                                            err |-> ""]]
    /\ UNCHANGED <<Tables, disk, crashed, ret, Users, usersFile, lastSet,
                   Procedures, proceduresFile, asql, Databases>>

\* cat.UsersLock.Lock() of the operation, cat.UsersFileLock.Lock() of
\* EncodeUsersToFile
LockAcquire(i) ==
    /\ ~crashed
    /\ threads[i].pc \in {"UsersLock", "UsersFileLock", "ProceduresFileLock"}
    /\ MutexFree(threads, threads[i].pc)
    /\ threads' = [threads EXCEPT
                     ![i].held = @ \cup {threads[i].pc},
                     ![i].pc = IF threads[i].pc = "UsersFileLock" THEN "encode" ELSE "body"]
    /\ UNCHANGED <<Tables, disk, crashed, ret, calls, Users, usersFile, lastSet,
                   Procedures, proceduresFile, asql, Databases>>

\* the operation under UsersLock, up to its first return or, for
\* CreateNewUser, up to the end of the check that the user does not exist
LockBody(i) ==
    /\ threads[i].pc = "body"
    /\ LET th == threads[i]
           c == CreateNewUser(Users, th.username, th.password)
           a == AuthenticateUser(Users, th.username, th.password)
       IN  threads' = [threads EXCEPT
                         ![i].err = IF th.op = "CreateNewUser" THEN c.err ELSE a.err,
                         ![i].pc = IF th.op = "CreateNewUser" /\ c.err = ""
                                   THEN "store" ELSE "return"]
    /\ UNCHANGED <<Tables, disk, crashed, ret, calls, Users, usersFile, lastSet,
                   Procedures, proceduresFile, asql, Databases>>

\* cat.Users[username] = &User{...} of CreateNewUser, and the call of
\* EncodeUsersToFile
LockStore(i) ==
    /\ threads[i].pc = "store"
    /\ Users' = MapSet(Users, threads[i].username,
                       [Username |-> threads[i].username,
                        Password |-> HashPassword(threads[i].password),
                        Privileges |-> <<>>])
    /\ lastSet' = MapSet(lastSet, threads[i].username, threads[i].password)
    /\ threads' = [threads EXCEPT ![i].pc = "UsersFileLock"]
    /\ UNCHANGED <<Tables, disk, crashed, ret, calls, usersFile, Procedures,
                   proceduresFile, asql, Databases>>

\* EncodeUsersToFile under UsersFileLock, and its deferred Unlock
LockEncode(i) ==
    /\ ~crashed
    /\ threads[i].pc = "encode"
    /\ usersFile' = [usersFile EXCEPT !.bytes = EncodeUsersToFile(Users)]
    /\ threads' = [threads EXCEPT ![i].held = @ \ {"UsersFileLock"}, ![i].pc = "return"]
    /\ UNCHANGED <<Tables, disk, crashed, ret, calls, Users, lastSet, Procedures,
                   proceduresFile, asql, Databases>>

\* the return of the operation and the deferred Unlock of UsersLock
LockReturn(i) ==
    /\ ~crashed
    /\ threads[i].pc = "return"
    /\ threads' = [threads EXCEPT ![i].held = {}, ![i].pc = "idle"]
    /\ ret' = [op |-> threads[i].op, username |-> threads[i].username,
               err |-> threads[i].err, thread |-> i]
    /\ UNCHANGED <<Tables, disk, crashed, calls, Users, usersFile, lastSet,
                   Procedures, proceduresFile, asql, Databases>>

NextLock ==
    \E i \in ThreadIds :
        \/ LockCall(i)
        \/ LockAcquire(i)
        \/ LockBody(i)
        \/ LockStore(i)
        \/ LockEncode(i)
        \/ LockReturn(i)

SpecLock == InitLock /\ [][NextLock]_vars

(***************************************************************************)
(* The user, privilege and procedure operations issued by several threads. *)
(***************************************************************************)
ProcNames == {"p1"}

NewProcedure(name) == [Name |-> name, Proc |-> "body"]

NilProcedure == [Name |-> "", Proc |-> ""]

\* slices.Sort of the names of a map
NameOrder == <<"admin", "bob", "p1">>

SortedNames(names) == SelectSeq(NameOrder, LAMBDA n : n \in names)

\* EncodeProceduresToFile on a file that Open has opened read-only fails;
\* db.Procedures is changed before it is called
WriteProcedures(procedures, file) ==
    IF file.writable
    THEN [err |-> "", procedures |-> procedures,
          file |-> [file EXCEPT !.bytes = EncodeProceduresToFile(procedures)]]
    ELSE [err |-> "write", procedures |-> procedures, file |-> file]

AddProcedure(procedures, file, proc) ==
    IF proc.Name \in DOMAIN procedures
    THEN [err |-> "exists", procedures |-> procedures, file |-> file]
    ELSE WriteProcedures(MapSet(procedures, proc.Name, proc), file)

DropProcedure(procedures, file, procName) ==
    IF procName \notin DOMAIN procedures
    THEN [err |-> "noproc", procedures |-> procedures, file |-> file]
    ELSE WriteProcedures(MapDelete(procedures, procName), file)

GetProcedures(procedures) == SortedNames(DOMAIN procedures)

GetProcedure(procedures, procName) ==
    IF procName \notin DOMAIN procedures THEN [err |-> "noproc", proc |-> NilProcedure]
    ELSE [err |-> "", proc |-> procedures[procName]]

GetUsers(users) == SortedNames(DOMAIN users)

UserOps ==
    {"CreateNewUser", "DropUser", "GrantPrivilegeToUser", "RevokePrivilegeFromUser",
     "AlterUserUsername", "AlterUserPassword", "AuthenticateUser", "GetUsers"}

ProcedureOps == {"AddProcedure", "DropProcedure", "GetProcedure", "GetProcedures"}

\* the privileges the threads grant and revoke
LivePrivileges == {NewPrivilege(DbName, T, as) : as \in ActionLists(1)}

\* the arguments of a call op: the fields an operation does not take are
\* left empty
LiveCalls(op) ==
    LET call(username, password, priv, name) ==
            [pc |-> IF op \in UserOps THEN "UsersLock" ELSE "ProceduresFileLock",
             held |-> {}, op |-> op, username |-> username, password |-> password,
             priv |-> priv, name |-> name, err |-> ""]
        none == NewPrivilege("", "", <<>>)
    IN  CASE op \in {"CreateNewUser", "AlterUserPassword", "AuthenticateUser"} ->
               {call(u, p, none, "") : u \in UserNames, p \in Passwords}
          [] op = "DropUser" -> {call(u, "", none, "") : u \in UserNames}
          [] op \in {"GrantPrivilegeToUser", "RevokePrivilegeFromUser"} ->
               {call(u, "", priv, "") : u \in UserNames, priv \in LivePrivileges}
          [] op = "AlterUserUsername" ->
               {call(u, "", none, n) : u \in UserNames, n \in UserNames}
          [] op \in {"AddProcedure", "DropProcedure", "GetProcedure"} ->
               {call("", "", none, n) : n \in ProcNames}
          [] OTHER -> {call("", "", none, "")}

IdleLive ==
    [pc |-> "idle", held |-> {}, op |-> "", username |-> "", password |-> "",
     priv |-> NewPrivilege("", "", <<>>), name |-> "", err |-> ""]

\* the catalog of a database that was created (procedures file writable) or
\* reopened (read-only), with the user bob created and granted a privilege
InitLive ==
    /\ Procedures = <<>>
    /\ \E writable \in BOOLEAN :
         proceduresFile = [NewProceduresFile EXCEPT !.writable = writable]
    /\ asql = NewASQL
    /\ Databases = [d \in {DbName} |-> CreateDatabase(d)]
    /\ Tables = <<>>
    /\ disk = <<>>
    /\ crashed = FALSE
    /\ calls = MaxCalls - 2
    /\ \E priv \in LivePrivileges :
         LET c == CreateNewUser(DefaultUsers, "bob", "pw")
             g == GrantPrivilegeToUser(c.users, "bob", priv)
         IN  /\ Users = g.users
             /\ usersFile = [open |-> TRUE, bytes |-> EncodeUsersToFile(g.users)]
    /\ lastSet = [u \in {"admin", "bob"} |-> IF u = "admin" THEN "admin" ELSE "pw"]
    /\ threads = [i \in ThreadIds |-> IdleLive]
    /\ ret = [op |-> "init"]

LiveCall(i) ==
    /\ ~crashed
    /\ threads[i].pc = "idle"
    /\ calls < MaxCalls
    /\ calls' = calls + 1
    /\ \E op \in UserOps \cup ProcedureOps :
         \E c \in LiveCalls(op) : threads' = [threads EXCEPT ![i] = c]
    /\ UNCHANGED <<Tables, disk, crashed, ret, Users, usersFile, lastSet,
                   Procedures, proceduresFile, asql, Databases>>

\* the result of a user operation up to its call of EncodeUsersToFile
UserOpResult(th, users) ==
    LET plain(r) == [err |-> r.err, users |-> r.users, panic |-> FALSE]
    IN  CASE th.op = "CreateNewUser" -> plain(CreateNewUser(users, th.username, th.password))
          [] th.op = "DropUser" -> plain(DropUser(users, th.username))
          [] th.op = "GrantPrivilegeToUser" ->
               plain(GrantPrivilegeToUser(users, th.username, th.priv))
          [] th.op = "RevokePrivilegeFromUser" ->
               RevokePrivilegeFromUser(users, th.username, th.priv)
          [] th.op = "AlterUserUsername" ->
               plain(AlterUserUsername(users, th.username, th.name))
          [] th.op = "AlterUserPassword" ->
               plain(AlterUserPassword(users, th.username, th.password))
          [] th.op = "AuthenticateUser" ->
               [err |-> AuthenticateUser(users, th.username, th.password).err,
                users |-> users, panic |-> FALSE]
          [] OTHER -> [err |-> "", users |-> users, panic |-> FALSE]

\* a user operation under UsersLock up to its call of EncodeUsersToFile, or
\* to its return, or to its panic: the deferred Unlock runs, the operation
\* does not return and the process ends
LiveUserBody(i) ==
    /\ ~crashed
    /\ threads[i].pc = "body"
    /\ threads[i].op \in UserOps
    /\ LET th == threads[i]
           r == UserOpResult(th, Users)
           writes == th.op \notin {"AuthenticateUser", "GetUsers"} /\ r.err = ""
       IN  /\ Users' = r.users
           /\ crashed' = r.panic
           /\ lastSet' =
                IF r.err # "" \/ r.panic THEN lastSet
                ELSE CASE th.op \in {"CreateNewUser", "AlterUserPassword"} ->
                            MapSet(lastSet, th.username, th.password)
                       [] th.op = "DropUser" -> MapDelete(lastSet, th.username)
                       [] th.op = "AlterUserUsername" ->
                            MapDelete(MapSet(lastSet, th.name, lastSet[th.username]),
                                      th.username)
                       [] OTHER -> lastSet
           /\ threads' = [threads EXCEPT
                            ![i].err = r.err,
                            ![i].held = IF r.panic THEN {} ELSE @,
                            ![i].pc = IF r.panic THEN "panic"
                                      ELSE IF writes THEN "UsersFileLock" ELSE "return"]
    /\ UNCHANGED <<Tables, disk, ret, calls, usersFile, Procedures, proceduresFile, asql,
                   Databases>>

\* a procedure operation under ProceduresFileLock, up to its return
LiveProcedureBody(i) ==
    /\ ~crashed
    /\ threads[i].pc = "body"
    /\ threads[i].op \in ProcedureOps
    /\ LET th == threads[i]
           r == CASE th.op = "AddProcedure" ->
                       AddProcedure(Procedures, proceduresFile, NewProcedure(th.name))
                  [] th.op = "DropProcedure" ->
                       DropProcedure(Procedures, proceduresFile, th.name)
                  [] th.op = "GetProcedure" ->
                       [err |-> GetProcedure(Procedures, th.name).err,
                        procedures |-> Procedures, file |-> proceduresFile]
                  [] OTHER -> [err |-> "", procedures |-> Procedures, file |-> proceduresFile]
       IN  /\ Procedures' = r.procedures
           /\ proceduresFile' = r.file
           /\ threads' = [threads EXCEPT ![i].err = r.err, ![i].pc = "return"]
    /\ UNCHANGED <<Tables, disk, crashed, ret, calls, Users, usersFile, lastSet, asql,
                   Databases>>

\* the steps of thread i other than taking a mutex
LiveStep(i) ==
    \/ LiveCall(i)
    \/ LiveUserBody(i)
    \/ LiveProcedureBody(i)
    \/ LockEncode(i)
    \/ LockReturn(i)

NextLive == \E i \in ThreadIds : LiveStep(i) \/ LockAcquire(i)

\* a running thread takes its next step; sync.Mutex hands a mutex that is
\* released again and again to a thread that keeps waiting for it
SpecLive ==
    /\ InitLive
    /\ [][NextLive]_vars
    /\ \A i \in ThreadIds : WF_vars(LiveStep(i)) /\ SF_vars(LockAcquire(i))

(***************************************************************************)
(* The command line client: the history and the keys.                      *)
(***************************************************************************)
\* the lines of a history file; fmt.Fscanln reads one word of a line into
\* its one argument and fails on a line that holds more
HistoryLines == {<<"s", ";">>, <<"s", " ", ";">>}

HistoryFiles == UNION {[1..n -> HistoryLines] : n \in 0..MaxSeq}

\* the loop of LoadHistory: the lines in front of the first one Fscanln fails on
RECURSIVE ScanLines(_)
ScanLines(lines) ==
    IF lines = <<>> THEN <<>>
    ELSE IF \E k \in DOMAIN Head(lines) : Head(lines)[k] = " " THEN <<>>
    ELSE <<Head(lines)>> \o ScanLines(Tail(lines))

LoadHistory(a, lines) ==
    LET history == a.history \o ScanLines(lines)
    IN  [a EXCEPT !.history = history, !.historyIndex = Len(history)]

\* a.history[a.historyIndex]: the index counts from 0; outside the slice the
\* access panics
HistoryAt(a) ==
    IF a.historyIndex >= 0 /\ a.historyIndex < Len(a.history)
    THEN [panic |-> FALSE, item |-> a.history[a.historyIndex + 1]]
    ELSE [panic |-> TRUE, item |-> <<>>]

nextHistory(a) ==
    LET b == IF a.historyIndex + 1 < Len(a.history)
             THEN [a EXCEPT !.historyIndex = @ + 1] ELSE a
    IN  [a |-> b, panic |-> HistoryAt(b).panic, item |-> HistoryAt(b).item]

previousHistory(a) ==
    LET b == IF a.historyIndex > 0 THEN [a EXCEPT !.historyIndex = @ - 1] ELSE a
    IN  [a |-> b, panic |-> HistoryAt(b).panic, item |-> HistoryAt(b).item]

HasSuffix(s, suffix) ==
    Len(s) >= Len(suffix) /\ SubSeq(s, Len(s) - Len(suffix) + 1, Len(s)) = suffix

\* the runes a key sends to the buffer
Runes == {"s", ";", " "}

\* the client after New and LoadHistory of a history file
InitCli ==
    /\ Procedures = <<>>
    /\ proceduresFile = NewProceduresFile
    /\ \E lines \in HistoryFiles : asql = LoadHistory(NewASQL, lines)
    /\ Databases = [d \in {DbName} |-> CreateDatabase(d)]
    /\ Tables = <<>>
    /\ disk = <<>>
    /\ crashed = FALSE
    /\ calls = 0
    /\ Users = DefaultUsers
    /\ usersFile = DefaultUsersFile
    /\ lastSet = [u \in {"admin"} |-> "admin"]
    /\ threads = <<>>
    /\ ret = [op |-> "init"]

\* KeyArrowDown and KeyArrowUp: the item is sent behind the prompt, rune by
\* rune, to the loop of main that appends to the buffer
ArrowKey(op, r) ==
    /\ Len(asql.history) > 0
    /\ crashed' = r.panic
    /\ asql' = IF r.panic THEN r.a ELSE [r.a EXCEPT !.buffer = PROMPT \o r.item]
    /\ ret' = [op |-> op, index |-> r.a.historyIndex, len |-> Len(r.a.history),
               panic |-> r.panic]

CliArrowDown ==
    /\ ~crashed
    /\ calls < MaxCalls
    /\ calls' = calls + 1
    /\ ArrowKey("nextHistory", nextHistory(asql))
    /\ UNCHANGED <<Tables, disk, Users, threads, usersFile, lastSet,
                   Procedures, proceduresFile, Databases>>

CliArrowUp ==
    /\ ~crashed
    /\ calls < MaxCalls
    /\ calls' = calls + 1
    /\ ArrowKey("previousHistory", previousHistory(asql))
    /\ UNCHANGED <<Tables, disk, Users, threads, usersFile, lastSet,
                   Procedures, proceduresFile, Databases>>

\* KeySpace and the default case: the rune is appended to the buffer
CliRune ==
    /\ ~crashed
    /\ calls < MaxCalls
    /\ calls' = calls + 1
    /\ \E r \in Runes :
         /\ asql' = [asql EXCEPT !.buffer = Append(@, r)]
         /\ ret' = [op |-> "rune", r |-> r]
    /\ UNCHANGED <<Tables, disk, crashed, Users, threads, usersFile, lastSet,
                   Procedures, proceduresFile, Databases>>

\* KeyBackspace
CliBackspace ==
    /\ ~crashed
    /\ calls < MaxCalls
    /\ calls' = calls + 1
    /\ asql' = IF Len(asql.buffer) > Len(PROMPT)
               THEN [asql EXCEPT !.buffer = SubSeq(@, 1, Len(@) - 1)] ELSE asql
    /\ ret' = [op |-> "backspace"]
    /\ UNCHANGED <<Tables, disk, crashed, Users, threads, usersFile, lastSet,
                   Procedures, proceduresFile, Databases>>

\* KeyEnter: a buffer ending in ; is a statement; it is appended to the
\* history, the index is set behind it and the buffer is emptied, and the
\* slice a.buffer[len(PROMPT):len(a.buffer)] of the empty buffer, taken to
\* send the statement, panics
CliEnter ==
    /\ ~crashed
    /\ calls < MaxCalls
    /\ calls' = calls + 1
    /\ LET statement == /\ HasSuffix(asql.buffer, <<";">>)
                        /\ ~HasSuffix(asql.buffer, <<"\"", ";">>)
                        /\ ~HasSuffix(asql.buffer, <<"'", ";">>)
           history == Append(asql.history,
                             SubSeq(asql.buffer, Len(PROMPT) + 1, Len(asql.buffer)))
       IN  /\ asql' = IF statement
                      THEN [history |-> history, historyIndex |-> Len(history),
                            buffer |-> <<>>]
                      ELSE [asql EXCEPT !.buffer = Append(@, "\n")]
           /\ crashed' = statement
           /\ ret' = [op |-> "enter", statement |-> statement]
    /\ UNCHANGED <<Tables, disk, Users, threads, usersFile, lastSet,
                   Procedures, proceduresFile, Databases>>

NextCli ==
    \/ CliArrowDown
    \/ CliArrowUp
    \/ CliRune
    \/ CliBackspace
    \/ CliEnter

SpecCli == InitCli /\ [][NextCli]_vars

(***************************************************************************)
(* A table with a NOT NULL character column, and the calls that store      *)
(* rows in it.                                                             *)
(***************************************************************************)
\* CreateTable("t", {id: INT NOT NULL UNIQUE SEQUENCE, name: CHAR(1) NOT NULL})
SchemaNotNullName ==
    [c \in {"id", "name"} |->
        IF c = "id" THEN ColumnDefinition("INT", TRUE, TRUE, TRUE, 0)
        ELSE ColumnDefinition("CHAR", TRUE, FALSE, FALSE, 1)]

InitNull ==
    /\ Procedures = <<>>
    /\ proceduresFile = NewProceduresFile
    /\ asql = NewASQL
    /\ Databases = [d \in {DbName} |-> CreateDatabase(d)]
    /\ \E encrypt \in BOOLEAN, compress \in BOOLEAN :
         \E r \in CreateTable(<<>>, <<>>, T, SchemaNotNullName, encrypt, compress,
                              KeyMaterial) :
            /\ r.err = ""
            /\ Tables = r.db
            /\ disk = r.disk
    /\ crashed = FALSE
    /\ calls = 0
    /\ Users = DefaultUsers
    /\ usersFile = DefaultUsersFile
    /\ lastSet = [u \in {"admin"} |-> "admin"]
    /\ threads = IdleThreads
    /\ ret = [op |-> "init"]

NextNull == \E t \in DOMAIN Tables : \/ DoInsert(t) \/ DoUpdateRow(t)

SpecNull == InitNull /\ [][NextNull]_vars

(***************************************************************************)
(* Tables {id, x} whose column x is CHAR(1), INT or SMALLINT, and calls    *)
(* that give x a value from the edges of the type.                         *)
(***************************************************************************)
X == "x"

TypedDefinitions ==
    {ColumnDefinition("CHAR", FALSE, FALSE, FALSE, 1),
     ColumnDefinition("INT", FALSE, FALSE, FALSE, 0),
     ColumnDefinition("SMALLINT", FALSE, FALSE, FALSE, 0)}

SchemaTyped(colDef) ==
    [c \in {"id", X} |->
        IF c = "id" THEN ColumnDefinition("INT", TRUE, TRUE, TRUE, 0) ELSE colDef]

\* a, ab, 'a', 'ab', 'a
CharPool ==
    {GoString(<<"a">>), GoString(<<"a", "b">>), GoString(<<"'", "a", "'">>),
     GoString(<<"'", "a", "b", "'">>), GoString(<<"'", "a">>)}

\* int -1, 32767, 32768, 2^31 - 1, 2^31, -2^31 - 1, -2^63; uint64 1, 2^31, 2^63
IntPool ==
    {GoInt(-1), GoInt(SMALLINT_MAX), GoInt(SMALLINT_MAX + 1), GoInt(INT_MAX),
     GoWide("int", <<0, 0, 32768, 0>>),
     GoWide("int", <<65535, 65535, 32767, 65535>>),
     GoWide("int", <<32768, 0, 0, 0>>),
     [t |-> "uint64", v |-> 1],
     GoWide("uint64", <<0, 0, 32768, 0>>),
     GoWide("uint64", <<32768, 0, 0, 0>>)}

TypedPool(colDef) == IF colDef.DataType = "CHAR" THEN CharPool ELSE IntPool

InitTyped ==
    /\ Procedures = <<>>
    /\ proceduresFile = NewProceduresFile
    /\ asql = NewASQL
    /\ Databases = [d \in {DbName} |-> CreateDatabase(d)]
    /\ \E colDef \in TypedDefinitions, encrypt \in BOOLEAN, compress \in BOOLEAN :
         \E r \in CreateTable(<<>>, <<>>, T, SchemaTyped(colDef), encrypt, compress,
                              KeyMaterial) :
            /\ r.err = ""
            /\ Tables = r.db
            /\ disk = r.disk
    /\ crashed = FALSE
    /\ calls = 0
    /\ Users = DefaultUsers
    /\ usersFile = DefaultUsersFile
    /\ lastSet = [u \in {"admin"} |-> "admin"]
    /\ threads = IdleThreads
    /\ ret = [op |-> "init"]

\* Insert([{x: value}])
DoInsertValue(t) ==
    /\ ~crashed
    /\ calls < MaxCalls
    /\ calls' = calls + 1
    /\ t \in DOMAIN disk /\ Tables[t].Rows
    /\ PagerCount(disk[t].dat) < MaxRows
    /\ SeqWithinBound(disk[t])
    /\ \E value \in TypedPool(Tables[t].TableSchema[X]) :
         \E r \in Insert(Tables, Tables[t], disk[t], <<[c \in {X} |-> value]>>) :
            /\ disk' = [disk EXCEPT ![t] = r.dir]
            /\ crashed' = r.panic
            /\ ret' = [op |-> "Insert", t |-> t, value |-> value, err |-> r.err,
                       panic |-> r.panic, rowIds |-> r.rowIds]
    /\ UNCHANGED <<Tables, Users, usersFile, lastSet, threads, Procedures,
                   proceduresFile, asql, Databases>>

\* UpdateRow(rowId, row, [x = value]) with the row read by GetRow
DoUpdateValue(t) ==
    /\ ~crashed
    /\ calls < MaxCalls
    /\ calls' = calls + 1
    /\ t \in DOMAIN disk /\ Tables[t].Rows
    /\ \E rowId \in ReadableRowIds(Tables[t], disk[t].dat) :
         \E value \in TypedPool(Tables[t].TableSchema[X]) :
            LET r == UpdateRow(Tables[t], disk[t], rowId,
                               GetRow(Tables[t], disk[t].dat, rowId).row,
                               <<[ColumnName |-> X, Value |-> value]>>)
            IN  /\ disk' = [disk EXCEPT ![t] = r.dir]
                /\ ret' = [op |-> "UpdateRow", t |-> t, value |-> value, err |-> r.err,
                           panic |-> FALSE, rowIds |-> <<rowId>>]
    /\ UNCHANGED <<Tables, crashed, Users, usersFile, lastSet, threads, Procedures,
                   proceduresFile, asql, Databases>>

NextTyped == \E t \in DOMAIN Tables : \/ DoInsertValue(t) \/ DoUpdateValue(t)

SpecTyped == InitTyped /\ [][NextTyped]_vars

(***************************************************************************)
(* Claims about Insert alone.                                              *)
(***************************************************************************)
UniqueColumns(tbl) == {c \in DOMAIN tbl.TableSchema : tbl.TableSchema[c].Unique}

SequenceColumns(tbl) == {c \in DOMAIN tbl.TableSchema : tbl.TableSchema[c].Sequence}

\* C1: after any sequence of Insert calls, whatever the compress and encrypt
\* flags of the table, no two live rows have equal values at a column
\* flagged Unique.
C1_UniqueColumnsHoldDistinctValues ==
    \A c \in UniqueColumns(Tables[T]) :
        \A k1, k2 \in ReadableRowIds(Tables[T], disk[T].dat) :
            (k1 # k2 /\ ~crashed)
            => MapGet(GetRow(Tables[T], disk[T].dat, k1).row, c)
                 # MapGet(GetRow(Tables[T], disk[T].dat, k2).row, c)

\* C5: for every combination of the compress and encrypt flags, Insert
\* completes, and after it succeeds GetRow(ids[i]) returns the i-th inserted
\* row with the sequence column set.
C5_GetRowReturnsInsertedRow ==
    ret.op = "Insert"
    => /\ ~ret.panic
       /\ ret.err = ""
          => \A i \in 1..Len(ret.rowIds) :
                GetRow(Tables[T], disk[T].dat, ret.rowIds[i])
                  = [err |-> FALSE, row |-> ret.rows[i]]

\* C8 as stated: on a table whose unique sequence column holds v in a live
\* row, Insert of a row that supplies v for the sequence column is rejected
\* and stores nothing.
SuppliesLiveSequenceValue(tbl, dat, row, rowIds) ==
    \E c \in SequenceColumns(tbl) \cap DOMAIN row :
        \E k \in ReadableRowIds(tbl, dat) :
            /\ \A i \in 1..Len(rowIds) : rowIds[i] # k
            /\ MapGet(GetRow(tbl, dat, k).row, c) = row[c]

C8_SuppliedSequenceValueRejected ==
    (ret.op = "Insert" /\ ~ret.panic
       /\ SuppliesLiveSequenceValue(Tables[T], disk[T].dat, ret.arg[1], ret.rowIds))
    => ret.err # ""

\* C8 as amended: Insert of a row that supplies a value for the sequence
\* column has the outcomes of Insert of the row without that value, and a
\* row it stores carries the value the sequence assigned, not the supplied
\* one.
C8_SuppliedSequenceValueOverwritten ==
    ~crashed
    => /\ \A row \in RowInputs(Tables[T].TableSchema) :
            \A c \in SequenceColumns(Tables[T]) \cap DOMAIN row :
                Insert(Tables, Tables[T], disk[T], <<row>>)
                  = Insert(Tables, Tables[T], disk[T], <<MapDelete(row, c)>>)
       /\ (ret.op = "Insert" /\ ret.err = "")
          => \A c \in SequenceColumns(Tables[T]) :
                ret.rows[1][c] = GoInt(Atoi(disk[T].seq).n)

C8_Witness ==
    /\ ret.op = "Insert" /\ ret.err = "" /\ ~ret.panic
    /\ SuppliesLiveSequenceValue(Tables[T], disk[T].dat, ret.arg[1], ret.rowIds)
    /\ \E c \in SequenceColumns(Tables[T]) \cap DOMAIN ret.arg[1] :
          ret.rows[1][c] # ret.arg[1][c]

(***************************************************************************)
(* Claims about the indexes under Insert, UpdateRow, DeleteRow and         *)
(* CreateIndex.                                                            *)
(***************************************************************************)
\* the keys an entry of val can be expected under: the text of the value,
\* or the key the index put of insert derives from it
DerivedKeys(tbl, val) ==
    {SprintfV(val)} \cup
    {e[1] : e \in insertIndexColumn([tbl EXCEPT !.Indexes = [n \in {"k"} |->
                                        NewIndex("k", <<"c">>, FALSE)]],
                                    [n \in {"k"} |-> {}], "c", val, 0, <<"k">>).bt["k"]}

IndexHoldsRow(tbl, bt, n, row, k) ==
    \A c \in DOMAIN row :
        Contains(tbl.Indexes[n].Columns, c)
        => \E key \in DerivedKeys(tbl, row[c]) : <<key, Itoa(k)>> \in bt[n]

\* C2: after any sequence of CreateIndex, Insert, UpdateRow and DeleteRow
\* calls every index covering a column holds the entry of every live row,
\* and no index holds an entry whose row-id is that of a deleted row.
C2_IndexesHoldExactlyLiveRows ==
    ~crashed
    => \A n \in DOMAIN Tables[T].Indexes :
          /\ \A k \in ReadableRowIds(Tables[T], disk[T].dat) :
                IndexHoldsRow(Tables[T], disk[T].bt, n,
                              GetRow(Tables[T], disk[T].dat, k).row, k)
          /\ \A e \in disk[T].bt[n] :
                Atoi(e[2]).n \notin PagerGetDeletedPages(disk[T].dat)

(***************************************************************************)
(* Claims about CreateTable, Close and Open.                               *)
(***************************************************************************)
\* the schema, the storage flags and the indexes of the two tables are equal
StructurallyEqual(a, b) ==
    /\ a.Name = b.Name
    /\ a.TableSchema = b.TableSchema
    /\ a.Compress = b.Compress
    /\ a.Encrypt = b.Encrypt
    /\ a.Indexes = b.Indexes

\* C6: after Close and Open on the same directory the tables of the
\* reopened catalog (schema, storage flags, indexes) equal the tables in
\* memory just before Close.
C6_ReopenedCatalogEqualsClosed ==
    ret.op = "Reopen"
    => \A name \in DOMAIN disk :
          /\ name \in DOMAIN Tables
          /\ StructurallyEqual(Tables[name], ret.before[name])

\* C7: a row inserted before Close is returned unchanged by GetRow with the
\* same row-id after Open, and the lookup of its unique-column value in the
\* unique index resolves to that row-id.
C7_RowsSurviveReopen ==
    ret.op = "Reopen"
    => \A name \in DOMAIN disk :
          \A k \in ReadableRowIds(ret.before[name], disk[name].dat) :
             LET old == GetRow(ret.before[name], disk[name].dat, k)
             IN  /\ GetRow(Tables[name], disk[name].dat, k) = old
                 /\ \A c \in UniqueColumns(Tables[name]) :
                       \E key \in DerivedKeys(ret.before[name], old.row[c]) :
                          Itoa(k) \in BTreeGet(disk[name].bt["unique_" \o c], key)

\* C9: whenever CreateTable(name, schema, ...) returns success, GetTable(name)
\* is a non-null table whose schema is the supplied schema and whose row
\* iteration yields no row.
C9_CreatedTableIsEmptyWithSchema ==
    (ret.op = "CreateTable" /\ ret.err = "")
    => /\ GetTable(Tables, ret.name) # NilTable
       /\ GetTable(Tables, ret.name).TableSchema = ret.schema
       /\ ret.name \in DOMAIN disk
       /\ ~IteratorValid(NewIterator, disk[ret.name].dat)

C9_Witness ==
    /\ ret.op = "CreateTable"
    /\ ret.err = ""
    /\ GetTable(Tables, ret.name).Compress
    /\ GetTable(Tables, ret.name).Encrypt

\* C10: whenever CreateTable(name, ...) returns an error for a name that was
\* not a table of the database, failure to create the table directory
\* included, GetTable(name) is null afterwards and there is no table
\* directory for name.
C10_FailedCreateTableLeavesNothing ==
    (ret.op = "CreateTable" /\ ret.err # "" /\ ~ret.existed)
    => /\ GetTable(Tables, ret.name) = NilTable
       /\ ret.name \notin DOMAIN disk

(***************************************************************************)
(* Claims about concurrent inserts and about privileges.                   *)
(***************************************************************************)
Inserted == {i \in ThreadIds : threads[i].pc = "done" /\ threads[i].err = ""}

Quiescent == \A i \in ThreadIds : threads[i].pc \in {"idle", "done"}

\* C3: when threads call Insert concurrently on a table with a sequence
\* column, some inserts possibly rejected, the sequence values of the rows
\* inserted are exactly 1..N for N successful inserts, without duplicates.
C3_SequenceValuesAreOneToN ==
    (~crashed /\ Quiescent)
    => \A c \in SequenceColumns(Tables[T]) :
          /\ {threads[i].row[c] : i \in Inserted}
               = {GoInt(n) : n \in 1..Cardinality(Inserted)}
          /\ \A i, j \in Inserted : i # j => threads[i].row[c] # threads[j].row[c]

\* what the specification of HasPrivilege asks for: every requested action
\* is matched by some entry under the match table
EveryActionMatched(u, db, tbl, actions) ==
    \A k \in DOMAIN actions :
        \E i \in DOMAIN u.Privileges :
            LET p == u.Privileges[i]
            IN  /\ \/ p.DatabaseName = db /\ p.TableName = tbl
                   \/ p.DatabaseName = "*" /\ p.TableName = "*"
                   \/ p.DatabaseName = db /\ p.TableName = "*"
                   \/ p.DatabaseName = "*" /\ p.TableName = tbl
                /\ \/ Contains(p.PrivilegeActions, actions[k])
                   \/ Contains(p.PrivilegeActions, PRIV_ALL)

\* C4: HasPrivilege returns true if and only if every requested action is
\* matched by at least one entry of the user under the match table, however
\* many entries or actions match the same requested action.
C4_HasPrivilegeIffEveryActionMatched ==
    ret.op = "HasPrivilege"
    => (ret.result
          <=> EveryActionMatched(Users[ret.username], ret.db, ret.tbl, ret.actions))

(***************************************************************************)
(* Claims about Insert with several rows.                                  *)
(***************************************************************************)
\* the number of rows the last Insert stored
StoredByInsert == PagerCount(disk[T].dat) - PagerCount(ret.before.dat)

\* the entries the last Insert put in the indexes
PutByInsert == UNION {disk[T].bt[n] \ ret.before.bt[n] : n \in DOMAIN disk[T].bt}

\* C11: when Insert(rows) fails at the first invalid row, at position i, it
\* returns an error and no ids, the rows before i are stored and indexed and
\* the rows from i on are neither stored nor indexed.
C11_BatchInsertStopsAtFirstInvalidRow ==
    (ret.op = "Insert" /\ ret.err # "" /\ ~ret.panic)
    => /\ ret.rowIds = <<>>
       /\ StoredByInsert < Len(ret.arg)
       /\ \A j \in 1..StoredByInsert :
             LET k == PagerCount(ret.before.dat) + j - 1
                 got == GetRow(Tables[T], disk[T].dat, k)
             IN  /\ ~got.err
                 /\ \A c \in DOMAIN ret.arg[j] : got.row[c] = ret.arg[j][c]
                 /\ \A n \in DOMAIN Tables[T].Indexes :
                       IndexHoldsRow(Tables[T], disk[T].bt, n, got.row, k)
       /\ \A e \in PutByInsert : Atoi(e[2]).n < PagerCount(disk[T].dat)
       /\ \A j \in 1..StoredByInsert :
             \E r \in Insert(Tables, Tables[T], ret.before, SubSeq(ret.arg, j, j)) :
                r.err = ""
       /\ \A r \in Insert(Tables, Tables[T], disk[T],
                          SubSeq(ret.arg, StoredByInsert + 1, StoredByInsert + 1)) :
             r.err # ""

C11_Witness ==
    /\ ret.op = "Insert" /\ ret.err # "" /\ ~ret.panic
    /\ Len(ret.arg) = 2
    /\ StoredByInsert = 1

\* C12: RevokePrivilegeFromUser(u, priv) leaves every other user as it was,
\* and leaves every privilege entry of u whose (DatabaseName, TableName) is
\* not that of priv as it was.
C12_RevokeChangesOnlyTheMatchingEntry ==
    ret.op = "RevokePrivilegeFromUser"
    => /\ DOMAIN Users = DOMAIN ret.before
       /\ \A u \in DOMAIN Users \ {ret.username} : Users[u] = ret.before[u]
       /\ ret.username \in DOMAIN Users
          => LET Other(p) == ~(/\ p.DatabaseName = ret.priv.DatabaseName
                              /\ p.TableName = ret.priv.TableName)
             IN  SelectSeq(Users[ret.username].Privileges, Other)
                 = SelectSeq(ret.before[ret.username].Privileges, Other)

\* C13: AuthenticateUser(name, password) returns the user if and only if a
\* user of that name exists and password is the one most recently set for
\* it by CreateNewUser or AlterUserPassword; otherwise it returns an error
\* and no user.
C13_AuthenticateIffLastSetPassword ==
    /\ DOMAIN lastSet = DOMAIN Users
    /\ ret.op = "AuthenticateUser"
       => /\ ret.ok <=> /\ ret.username \in DOMAIN lastSet
                        /\ lastSet[ret.username] = ret.password
          /\ ret.ok => /\ ret.err = ""
                       /\ ret.user = Users[ret.username]
                       /\ ret.user.Username = ret.username
          /\ ~ret.ok => ret.err # "" /\ ret.user = NilUser

\* a user other than the seeded one is authenticated with the password
\* the seeded one was given: the seeded user was renamed, or the user was
\* created with that password
C13_Witness ==
    /\ ret.op = "AuthenticateUser"
    /\ ret.ok
    /\ ret.username = "bob"
    /\ ret.password = "admin"

\* C14: Open on an empty users file succeeds with a user admin that
\* authenticates with the password admin and holds exactly (*, *, [ALL]);
\* Open on a non-empty users file leaves the file and the users stored in
\* it, which are the users the catalog had, as they were.
C14_OpenSeedsAdminOnlyOnEmptyFile ==
    ret.op = "Open"
    => IF ret.before = EmptyFile
       THEN /\ ret.err = ""
            /\ "admin" \in DOMAIN Users
            /\ AuthenticateUser(Users, "admin", "admin").ok
            /\ Users["admin"].Privileges = <<NewPrivilege("*", "*", <<PRIV_ALL>>)>>
            /\ ReadUsersFromFile(usersFile.bytes).users = Users
       ELSE /\ ret.err = ""
            /\ usersFile.bytes = ret.before
            /\ Users = ReadUsersFromFile(ret.before).users
            /\ Users = ret.users

\* a catalog whose admin was dropped is opened again
C14_Witness ==
    /\ ret.op = "Open"
    /\ ret.before # EmptyFile
    /\ "admin" \notin DOMAIN Users

\* Open has seeded an empty users file
C14_WitnessSeeded == ret.op = "Open" /\ ret.before = EmptyFile /\ Users = DefaultUsers

\* the rows GetRow returns for the live row-ids from k on, in ascending order
RECURSIVE LiveRowsFrom(_, _, _)
LiveRowsFrom(tbl, dat, k) ==
    IF k >= PagerCount(dat) THEN <<>>
    ELSE IF k \in LiveRowIds(dat)
    THEN <<GetRow(tbl, dat, k).row>> \o LiveRowsFrom(tbl, dat, k + 1)
    ELSE LiveRowsFrom(tbl, dat, k + 1)

\* C15: after any inserts and deletes, a scan (Next while Valid, keeping the
\* results that are not null) returns no error and yields the live rows,
\* each once, in ascending row-id order, and no deleted row.
C15_IterationYieldsLiveRowsInOrder ==
    ret.op = "Iterate"
    => /\ ~ret.err
       /\ ret.rows = LiveRowsFrom(Tables[T], disk[T].dat, 0)

\* the row with every set clause applied, in order
RECURSIVE RowWithSets(_, _)
RowWithSets(row, sets) ==
    IF sets = <<>> THEN row
    ELSE RowWithSets(MapSet(row, Head(sets).ColumnName, Head(sets).Value), Tail(sets))

\* C16: whatever the compress and encrypt flags of the table, after
\* UpdateRow(k, row, sets) succeeds GetRow(k) returns the row with every
\* set clause applied.
C16_GetRowReturnsUpdatedRow ==
    (ret.op = "UpdateRow" /\ ret.err = "")
    => LET r == GetRow(Tables[T], disk[T].dat, ret.rowId)
       IN  /\ ~r.err
           /\ r.row = RowWithSets(ret.row, ret.sets)

\* C17: after UpdateRow(k, row, sets) succeeds, for every set clause on an
\* indexed column every index covering the column holds (new value, k), and
\* no longer holds (value before the update, k) when the value changed and
\* no other column of the index has that value in the updated row.
C17_UpdateMovesEveryIndexEntry ==
    (ret.op = "UpdateRow" /\ ret.err = "")
    => LET new == RowWithSets(ret.row, ret.sets)
           k == Itoa(ret.rowId)
       IN  \A i \in DOMAIN ret.sets : \A n \in DOMAIN Tables[T].Indexes :
              LET c == ret.sets[i].ColumnName
                  cols == Tables[T].Indexes[n].Columns
              IN  Contains(cols, c)
                  => /\ <<SprintfV(new[c]), k>> \in disk[T].bt[n]
                     /\ (/\ SprintfV(ret.row[c]) # SprintfV(new[c])
                         /\ \A j \in DOMAIN cols :
                               HasKey(new, cols[j])
                               => SprintfV(new[cols[j]]) # SprintfV(ret.row[c]))
                        => <<SprintfV(ret.row[c]), k>> \notin disk[T].bt[n]

\* every reference of the schema of tbl names a table of the database that
\* has a unique index covering the referenced column
ReferencesResolve(db, tbl) ==
    \A c \in DOMAIN tbl.TableSchema :
       LET ref == tbl.TableSchema[c].References
       IN  ref # NoReference
           => /\ ref.TableName \in DOMAIN db
              /\ CheckIndexedColumn(db[ref.TableName], ref.ColumnName, TRUE) # {}

\* C18: an insert into a table with a foreign-key column is not rejected
\* with a reference violation when the referenced table exists and has a
\* unique index covering the referenced column, and otherwise fails and
\* returns no row id.
C18_ForeignKeyCheckUsesReferencedColumn ==
    (ret.op = "Insert" /\ ret.t = T /\ ~ret.panic)
    => IF ReferencesResolve(Tables, Tables[T])
       THEN ret.err # "fk"
       ELSE ret.err # "" /\ ret.rowIds = <<>>

\* C19: every column of a table's schema that is flagged Unique has a
\* unique index named unique_<column> in the index map of the table.
C19_UniqueColumnsHaveTheirIndex ==
    \A t \in DOMAIN Tables : \A c \in DOMAIN Tables[t].TableSchema :
       Tables[t].TableSchema[c].Unique
       => /\ ("unique_" \o c) \in DOMAIN Tables[t].Indexes
          /\ Tables[t].Indexes["unique_" \o c].Unique

\* C20: every table schema has at most one column flagged Sequence, and
\* that column is INT or INTEGER, NotNull and Unique.
C20_SequenceColumnRules ==
    \A t \in DOMAIN Tables :
       LET schema == Tables[t].TableSchema
           seqs == {c \in DOMAIN schema : schema[c].Sequence}
       IN  /\ Cardinality(seqs) <= 1
           /\ \A c \in seqs : /\ schema[c].DataType \in {"INT", "INTEGER"}
                               /\ schema[c].NotNull
                               /\ schema[c].Unique

\* C21: after Alter(column, nil) succeeds the schema no longer has the
\* column, every live row-id k reads as the row stored at k before the call
\* without that column, and the table has as many pages as before.
C21_DropColumnRewritesEveryRowInPlace ==
    (ret.op = "Alter" /\ ret.columnDef = NilColumnDefinition /\ ret.err = "" /\ ~ret.panic)
    => /\ ret.columnName \notin DOMAIN Tables[T].TableSchema
       /\ PagerCount(disk[T].dat) = PagerCount(ret.before.dat)
       /\ \A k \in LiveRowIds(ret.before.dat) :
             LET old == GetRow(ret.tbl, ret.before.dat, k)
                 new == GetRow(Tables[T], disk[T].dat, k)
             IN  ~old.err => /\ ~new.err
                             /\ new.row = MapDelete(old.row, ret.columnName)

\* the values the completed calls of IncrementSequence have returned, each
\* with the thread and the position of the call
Returned ==
    UNION {{<<i, j, threads[i].got[j]>> : j \in DOMAIN threads[i].got} : i \in ThreadIds}

\* C22: the values concurrent calls of IncrementSequence return are
\* pairwise distinct; when k calls have completed and none is under way,
\* the values returned are exactly 1..k and the sequence file holds k.
C22_IncrementSequenceReturnsOneToK ==
    /\ \A x, y \in Returned : x # y => x[3] # y[3]
    /\ (\A i \in ThreadIds : threads[i].pc \in {"idle", "lock"})
       => /\ {x[3] : x \in Returned} = 1..Cardinality(Returned)
          /\ disk[T].seq = IF Returned = {} THEN <<>> ELSE Itoa(Cardinality(Returned))

\* both threads have completed a call and a third call has completed
C22_Witness ==
    /\ \A i \in ThreadIds : threads[i].pc = "idle" /\ threads[i].got # <<>>
    /\ Cardinality(Returned) = MaxCalls

\* C23: no operation acquires one of the mutexes while it holds another:
\* a thread never holds two of them.
C23_NoThreadHoldsTwoMutexes ==
    \A i \in ThreadIds : Cardinality(threads[i].held) <= 1

\* C24: no live row holds a null or absent value in a column flagged
\* NotNull.
C24_NoNullInNotNullColumn ==
    \A t \in DOMAIN Tables :
        \A k \in ReadableRowIds(Tables[t], disk[t].dat) :
            \A c \in DOMAIN Tables[t].TableSchema :
                Tables[t].TableSchema[c].NotNull =>
                    LET row == GetRow(Tables[t], disk[t].dat, k).row
                    IN  HasKey(row, c) /\ row[c] # GoNil

C26_NonceIsTailOfDigest ==
    \A t \in DOMAIN Tables :
        Tables[t].Encrypt =>
            /\ Tables[t].HashedKey = Sha256(KeyMaterial)
            /\ Tables[t].Nonce = HashTail(Sha256(KeyMaterial))

\* a string without one surrounding pair of single quotes
StripQuotePair(str) ==
    IF Len(str) >= 2 /\ str[1] = "'" /\ str[Len(str)] = "'"
    THEN SubSeq(str, 2, Len(str) - 1)
    ELSE str

\* C27: Insert and UpdateRow reject a string for a CHAR column of length L
\* if and only if its length, after stripping one surrounding pair of
\* single quotes, exceeds L.
C27_CharLengthRuleIsTheSame ==
    (/\ ret.op \in {"Insert", "UpdateRow"}
     /\ Tables[ret.t].TableSchema[X].DataType = "CHAR"
     /\ ret.value.t = "string")
    => (ret.err # "" <=>
          Len(StripQuotePair(ret.value.v)) > Tables[ret.t].TableSchema[X].Length)

\* the number a Go value stands for is greater than limit
NumberGreater(val, limit) ==
    IF val.t = "uint64"
    THEN LET a == Bits(val)
             b == Bits(GoInt(limit))
         IN  \E i \in 1..4 : a[i] > b[i] /\ \A j \in 1..(i - 1) : a[j] = b[j]
    ELSE IntGreater(val, limit)

\* C28: Insert and UpdateRow reject a value for an integer column if and
\* only if it is greater than 2147483647 (INT) or 32767 (SMALLINT).
C28_IntegerRangeRule ==
    (/\ ret.op \in {"Insert", "UpdateRow"}
     /\ Tables[ret.t].TableSchema[X].DataType \in {"INT", "SMALLINT"})
    => (ret.err # "" <=>
          NumberGreater(ret.value,
                        IF Tables[ret.t].TableSchema[X].DataType = "INT"
                        THEN INT_MAX ELSE SMALLINT_MAX))

\* the actions a user holds on exactly (db, tbl)
ActionsOn(user, db, tbl) ==
    UNION {{user.Privileges[k].PrivilegeActions[a]
              : a \in DOMAIN user.Privileges[k].PrivilegeActions}
           : k \in {k \in DOMAIN user.Privileges :
                      /\ user.Privileges[k].DatabaseName = db
                      /\ user.Privileges[k].TableName = tbl}}

\* C29: after a successful RevokePrivilegeFromUser(u, (db, tbl, A)) the
\* actions u holds on exactly (db, tbl) are those held before minus A.
C29_RevokeRemovesExactlyTheActions ==
    (ret.op = "RevokePrivilegeFromUser" /\ ret.err = "" /\ ~ret.panic)
    => ActionsOn(Users[ret.username], ret.priv.DatabaseName, ret.priv.TableName)
       = ActionsOn(ret.before[ret.username], ret.priv.DatabaseName, ret.priv.TableName)
         \ {ret.priv.PrivilegeActions[a] : a \in DOMAIN ret.priv.PrivilegeActions}

\* C30: concurrent inserts never leave two live rows that carry the same
\* value in a unique column that is not the sequence column.
C30_ConcurrentInsertsKeepUniqueColumns ==
    ~crashed
    => \A c \in DOMAIN Tables[T].TableSchema :
          (Tables[T].TableSchema[c].Unique /\ ~Tables[T].TableSchema[c].Sequence)
          => \A k1, k2 \in ReadableRowIds(Tables[T], disk[T].dat) :
                LET r1 == GetRow(Tables[T], disk[T].dat, k1).row
                    r2 == GetRow(Tables[T], disk[T].dat, k2).row
                IN  (k1 # k2 /\ HasKey(r1, c) /\ HasKey(r2, c)) => r1[c] # r2[c]

\* C31: after Close and Open, Insert into a table with a sequence column
\* completes and assigns the value that follows the last one assigned
\* before, which the sequence file then holds.
C31_SequenceContinuesAfterReopen ==
    (/\ ret.op = "Insert"
     /\ Tables[ret.t].SequenceFile = "ro"
     /\ SequenceColumns(Tables[ret.t]) # {})
    => /\ ~ret.panic
       /\ ret.err = ""
          => \A c \in SequenceColumns(Tables[ret.t]) :
                ret.rows[1][c] = GoInt(Atoi(disk[ret.t].seq).n)

\* the errors of UpdateRow's validation of a set clause against the schema
ValidationErrors == {"type", "toolong", "toolarge"}

\* C32: a step in which UpdateRow returns a schema-validation error leaves
\* the pages of the table and every index as they were.
C32_FailedUpdateChangesNothing ==
    [][(ret'.op = "UpdateRow" /\ ret'.err \in ValidationErrors) => disk' = disk]_vars

\* an UpdateRow whose first set clause is valid and changes the value, and
\* whose second is rejected, has returned
C32_Witness ==
    /\ ret.op = "UpdateRow"
    /\ ret.err \in ValidationErrors
    /\ Len(ret.sets) = 2
    /\ UpdateTypeCheck(Tables[ret.t], MapSet(ret.row, ret.sets[1].ColumnName,
                                             ret.sets[1].Value),
                        ret.sets[1].ColumnName) = ""
    /\ ret.row[ret.sets[1].ColumnName] # ret.sets[1].Value
    /\ DOMAIN disk[ret.t].bt # {}

\* C33: an Alter with a non-nil definition that returns an error leaves the
\* schema of the table and its set of indexes as they were.
C33_FailedAlterAddChangesNothing ==
    (/\ ret.op = "Alter"
     /\ ret.columnDef # NilColumnDefinition
     /\ ret.err # ""
     /\ ~ret.panic)
    => /\ Tables[ret.t].TableSchema = ret.tbl.TableSchema
       /\ Tables[ret.t].Indexes = ret.tbl.Indexes
       /\ disk[ret.t].idx = ret.before.idx

\* C34: every Next of the scan strictly increases the cursor, whatever the
\* pager returns, and the scan makes at most Count iterations.
C34_NextAlwaysAdvancesTheCursor ==
    \A i \in ThreadIds :
        threads[i].steps > 0
        => /\ threads[i].ri.row > threads[i].prev
           /\ threads[i].steps <= PagerCount(disk[T].dat)

\* the user holds an entry for the pair of priv
HoldsPair(user, priv) ==
    \E k \in DOMAIN user.Privileges :
        /\ user.Privileges[k].DatabaseName = priv.DatabaseName
        /\ user.Privileges[k].TableName = priv.TableName

\* C35: no user holds two privilege entries with the same (DatabaseName,
\* TableName), and a grant for a pair the user already holds returns an
\* error and leaves the privileges as they are.
C35_OneEntryPerPair ==
    \A u \in DOMAIN Users :
        /\ \A j, k \in DOMAIN Users[u].Privileges :
              (/\ Users[u].Privileges[j].DatabaseName = Users[u].Privileges[k].DatabaseName
               /\ Users[u].Privileges[j].TableName = Users[u].Privileges[k].TableName)
              => j = k
        /\ \A priv \in PrivilegeInputs :
              HoldsPair(Users[u], priv)
              => LET r == GrantPrivilegeToUser(Users, u, priv)
                 IN  r.err # "" /\ r.users = Users

\* a grant was refused for a user that holds two entries
C35_Witness ==
    /\ ret.op = "GrantPrivilegeToUser"
    /\ ret.err = "exists"
    /\ Len(Users[ret.username].Privileges) >= 2

\* threads i and j have each made one call, CreateNewUser with the same
\* new username, and both calls have returned
BothCreated(i, j) ==
    /\ i # j
    /\ calls = 2
    /\ threads[i].pc = "idle" /\ threads[j].pc = "idle"
    /\ threads[i].op = "CreateNewUser" /\ threads[j].op = "CreateNewUser"
    /\ threads[i].username = threads[j].username
    /\ threads[i].username \notin DOMAIN DefaultUsers

\* C36: of two concurrent CreateNewUser calls with the same username exactly
\* one succeeds, the other returns the already-exists error, and the stored
\* user carries the password of the successful call.
C36_OneConcurrentCreateSucceeds ==
    \A i, j \in ThreadIds :
        BothCreated(i, j)
        => \E w \in {i, j} :
              /\ threads[w].err = ""
              /\ \A l \in {i, j} \ {w} : threads[l].err = "exists"
              /\ Users[threads[w].username].Password = HashPassword(threads[w].password)
              /\ usersFile.bytes = EncodeUsersToFile(Users)

\* a thread is inside CreateNewUser, the user stored, while another thread
\* waits at UsersLock to create the same user with another password
C36_Witness ==
    \E i, j \in ThreadIds :
        /\ threads[i].pc = "encode" /\ threads[i].op = "CreateNewUser"
        /\ threads[j].pc = "UsersLock" /\ threads[j].op = "CreateNewUser"
        /\ threads[i].username = threads[j].username
        /\ threads[i].password # threads[j].password
        /\ threads[i].username \in DOMAIN Users

\* C37: under any interleaving of user, privilege and procedure operations
\* issued by several threads, every started operation eventually returns.
C37_EveryStartedOperationReturns ==
    \A i \in ThreadIds : (threads[i].pc # "idle") ~> (threads[i].pc = "idle")

\* C38: after LoadHistory and any sequence of keys with a non-empty history,
\* every access history[historyIndex] made by nextHistory or previousHistory
\* uses an index in 0..len(history)-1.
C38_HistoryIndexInRange ==
    ret.op \in {"nextHistory", "previousHistory"}
    => ret.index >= 0 /\ ret.index < ret.len

\* C39: for every database and table of the catalog, created or rebuilt by
\* Open, every mutex the operations lock on it is initialized:
\* Database.TablesLock, Database.ProceduresFileLock, Table.SeqLock and
\* Index.lock.
C39_EveryMutexIsInitialized ==
    /\ \A d \in DOMAIN Databases :
          Databases[d].TablesLock /\ Databases[d].ProceduresFileLock
    /\ \A t \in DOMAIN Tables :
          /\ Tables[t].SeqLock
          /\ \A n \in DOMAIN Tables[t].Indexes : Tables[t].Indexes[n].lock

====
